---- MODULE Spec2Model ----
(***************************************************************************)
(* Risk-control core of the Robotrading bot:                               *)
(*   - the advanced stop-loss engine   (src/advanced_stop_loss.py)         *)
(*   - the allocation ledger and trade sizer (src/portfolio_manager.py)    *)
(*                                                                         *)
(* Units.  Prices and money are whole dollars, times are minutes.  A stop  *)
(* price is kept multiplied by 100 ("x100") so that                        *)
(* high_price * (1 - trailing_percent/100) stays an integer; fractions of  *)
(* the ledger are kept as pairs <<numerator, denominator>>.  Arithmetic is *)
(* exact: the rounding of Python floats is not modelled.                   *)
(***************************************************************************)
EXTENDS Integers, Sequences, FiniteSets, TLC

VARIABLES
    now,                \* wall clock read by datetime.now(), in minutes
    connected,          \* ib is set and ib.isConnected()
    broker,             \* the broker's book: symbol -> [position, price, averageCost]
    position_trackers,  \* AdvancedStopLossManager.position_trackers
    last_run,           \* what the stop-loss call that has just returned did
    allocation,         \* PortfolioManager.allocation (fractions in thousandths)
    positions,          \* PortfolioManager.positions
    total_portfolio_value,  \* PortfolioManager.total_portfolio_value
    last_call,          \* the ledger call that has just returned, and its result
    shutdown_flag,      \* shutdown_flag.is_set()
    session_pc,         \* where run_bot_robust stands: idle, a workflow, summary
    results,            \* results of run_bot_robust: workflow -> TradingResult
    trading_session,    \* the trading_session record the summary is built from
    outbox,             \* the messages handed to the notifier in the last session
    placed,             \* the orders submitted to the broker in the last session
    cycle,              \* the signals and losing positions the last session saw
    legacy_connected,   \* ib.isConnected() of the legacy bot
    legacy_trading_session,  \* trading_session of the legacy module
    wall_time,          \* time.time() as the circuit breakers read it, in minutes
    circuit_breakers,   \* circuit_breakers of the decorators: func_key -> breaker
    last_wrap,          \* the call of a retry wrapper that has just ended
    ib_lock,            \* ib_lock: free, or the thread that holds it
    conn_pc,            \* thread -> where it stands in ensure_ibkr_connection/initialize_ibkr
    conn_outer,         \* thread -> the function it called from outside
    conn_ret,           \* thread -> what its last call returned
    cache,              \* DataCache._cache: key -> CacheEntry
    cache_time,         \* time.time() as the cache reads it, in periods of 5 minutes
    cache_ret,          \* the call of the data provider that has just returned
    sched_now,          \* datetime.now() of the scheduler service: weekday and minute
    sched_done,         \* the jobs of the schedule that have run today
    sched_last          \* the session the scheduler has just fired, and how it ended

stopVars == <<now, connected, broker, position_trackers, last_run>>

ledgerVars == <<allocation, positions, total_portfolio_value, last_call>>

sessionVars == <<shutdown_flag, session_pc, results, trading_session, outbox,
                 placed, cycle, legacy_connected, legacy_trading_session>>

retryVars == <<wall_time, circuit_breakers, last_wrap>>

connVars == <<ib_lock, conn_pc, conn_outer, conn_ret>>

cacheVars == <<cache, cache_time, cache_ret>>

schedVars == <<sched_now, sched_done, sched_last>>

restVars == <<retryVars, connVars, cacheVars, schedVars>>

\* what the operations of the scheduler service leave alone, shutdown_flag apart
schedFrame == <<stopVars, ledgerVars, session_pc, results, trading_session, outbox,
                placed, cycle, legacy_connected, legacy_trading_session,
                retryVars, connVars, cacheVars>>

\* what the operations of the data cache leave alone
cacheFrame == <<stopVars, ledgerVars, sessionVars, retryVars, connVars, schedVars>>

\* what the operations of the retry decorator leave alone
retryFrame == <<stopVars, ledgerVars, sessionVars, connVars, cacheVars, schedVars>>

\* what the operations on the broker session leave alone, connected apart
connFrame == <<now, broker, position_trackers, last_run,
               ledgerVars, sessionVars, retryVars, cacheVars, schedVars>>

vars == <<now, connected, broker, position_trackers, last_run,
          allocation, positions, total_portfolio_value, last_call,
          shutdown_flag, session_pc, results, trading_session, outbox,
          placed, cycle, legacy_connected, legacy_trading_session,
          wall_time, circuit_breakers, last_wrap,
          ib_lock, conn_pc, conn_outer, conn_ret,
          cache, cache_time, cache_ret,
          sched_now, sched_done, sched_last>>

(***************************************************************************)
(* Bounds of the model                                                     *)
(***************************************************************************)
MaxTicks == 3           \* the clock stops after MaxTicks ticks
TickMinutes == 25       \* minutes between two readings of the clock
MaxQty == 1             \* largest long quantity held of one symbol

\* ib.positions() lists the symbols in this order
SymbolOrder == <<"AAPL", "TLT">>
SymbolSet == {SymbolOrder[i] : i \in 1..Len(SymbolOrder)}
Prices == {90, 100, 110}
AvgCosts == {100}
Qtys == (-1)..MaxQty    \* a negative quantity is a short position
ATRValues == {0, 2}     \* what calculate_atr can return (0 = insufficient data)
TrailingPercents == {0, 5, 10}
AtrMultipliers == {1, 2, 3}

(***************************************************************************)
(* StopLossConfig defaults                                                 *)
(***************************************************************************)
enabled == TRUE
trailing_percent == 5
atr_multiplier == 2
regime_aware == TRUE
high_vol_threshold == 50        \* 0.5, in percent
high_vol_tightening == 60       \* 0.6, in percent
min_hold_time == 30

\* the attributes a StopLossConfig instance has
StopLossConfigFields ==
    {"enabled", "trailing_percent", "atr_multiplier", "atr_period",
     "regime_aware", "high_vol_threshold", "high_vol_tightening",
     "intraday_check_interval", "min_hold_time"}

\* get_hmm_regime_probability: no regime model is wired in, it returns None
None == "None"
get_hmm_regime_probability(symbol) == None

(***************************************************************************)
(* PositionTracker                                                         *)
(***************************************************************************)
Max(a, b) == IF a >= b THEN a ELSE b

\* (mutant) the last observed price overwrites the high-water mark
update_high_price_Overwrite(tracker, current_price) ==
    [tracker EXCEPT !.high_price = current_price]

\* update_high_price: the high-water mark only moves up
update_high_price(tracker, current_price) ==
    IF current_price > tracker.high_price
    THEN [tracker EXCEPT !.high_price = current_price]
    ELSE tracker

\* high_price * (1 - trailing_percent / 100), x100
get_trailing_stop(tracker, tp) == tracker.high_price * (100 - tp)

\* entry_price - atr_multiplier * atr_value, x100
get_atr_stop(tracker, am) == (tracker.entry_price - am * tracker.atr_value) * 100

\* (mutant) the lower of the two stops is taken
get_effective_stop_Min(tracker, tp, am) ==
    IF get_trailing_stop(tracker, tp) <= get_atr_stop(tracker, am)
    THEN get_trailing_stop(tracker, tp) ELSE get_atr_stop(tracker, am)

\* the more conservative (higher) of the two stops, x100
get_effective_stop(tracker, tp, am) ==
    Max(get_trailing_stop(tracker, tp), get_atr_stop(tracker, am))

(***************************************************************************)
(* Broker collaborator                                                     *)
(***************************************************************************)
RECURSIVE PositionsFrom(_, _)
PositionsFrom(b, i) ==
    IF i > Len(SymbolOrder) THEN <<>>
    ELSE LET s == SymbolOrder[i] IN
         IF b[s].position = 0
         THEN PositionsFrom(b, i + 1)
         ELSE <<[symbol |-> s, position |-> b[s].position,
                 marketValue |-> b[s].price * b[s].position,
                 averageCost |-> b[s].averageCost]>> \o PositionsFrom(b, i + 1)

\* ib.positions(): one entry per symbol with a non-zero quantity
Positions(b) == PositionsFrom(b, 1)

\* ensure_ibkr_connection
ensure_ibkr_connection == connected

(***************************************************************************)
(* AdvancedStopLossManager.update_position_trackers                        *)
(***************************************************************************)
\* the loop body for one position; atr is what calculate_atr returns.
\* atr_time is not a field of PositionTracker: it records when calculate_atr
\* last produced the atr_value of the tracker.
TrackPosition(trackers, pos, current_time, atr) ==
    IF pos.position <= 0 THEN trackers
    ELSE LET symbol == pos.symbol
             current_price == pos.marketValue \div pos.position
             avg_cost == pos.averageCost
         IN IF symbol \notin DOMAIN trackers
            THEN [s \in DOMAIN trackers \cup {symbol} |->
                    IF s = symbol
                    THEN [entry_price |-> avg_cost,
                          entry_time |-> current_time,
                          high_price |-> Max(avg_cost, current_price),
                          quantity |-> pos.position,
                          atr_value |-> atr[symbol],
                          last_check |-> current_time,
                          atr_time |-> current_time]
                    ELSE trackers[s]]
            ELSE LET t1 == update_high_price(trackers[symbol], current_price)
                     t2 == [t1 EXCEPT !.last_check = current_time]
                     \* last_check was just set to current_time, so the
                     \* elapsed time compared with 3600 s is always 0
                     t3 == IF (current_time - t2.last_check) * 60 > 3600
                           THEN [t2 EXCEPT !.atr_value = atr[symbol],
                                           !.last_check = current_time,
                                           !.atr_time = current_time]
                           ELSE t2
                 IN [trackers EXCEPT ![symbol] = t3]

RECURSIVE TrackLoop(_, _, _, _, _)
TrackLoop(trackers, ps, i, current_time, atr) ==
    IF i > Len(ps) THEN trackers
    ELSE TrackLoop(TrackPosition(trackers, ps[i], current_time, atr),
                   ps, i + 1, current_time, atr)

\* (mutant) trackers of positions no longer held are kept
UpdatedTrackers_NoRemoval(trackers, b, current_time, atr) ==
    IF ~ensure_ibkr_connection THEN trackers
    ELSE TrackLoop(trackers, Positions(b), 1, current_time, atr)

\* the trackers after one update_position_trackers cycle
UpdatedTrackers(trackers, b, current_time, atr) ==
    IF ~ensure_ibkr_connection THEN trackers
    ELSE LET snapshot == Positions(b)
             tracked == TrackLoop(trackers, snapshot, 1, current_time, atr)
             current_symbols == {snapshot[i].symbol :
                                   i \in {j \in 1..Len(snapshot) : snapshot[j].position > 0}}
         IN [s \in DOMAIN tracked \cap current_symbols |-> tracked[s]]

(***************************************************************************)
(* AdvancedStopLossManager.check_stop_loss_positions                       *)
(***************************************************************************)
\* (current_time - tracker.entry_time).total_seconds() / 60
HoldTimeMinutes(tracker, current_time) == current_time - tracker.entry_time

\* (mutant) the minimum-hold gate is missing
BelowMinHold_NoGate(tracker, current_time) == FALSE

\* if hold_time_minutes < self.config.stop_loss.min_hold_time: continue
BelowMinHold(tracker, current_time) ==
    HoldTimeMinutes(tracker, current_time) < min_hold_time

AttributeError == "AttributeError"

\* self.config.stop_loss.<name>: a name that is not a field of StopLossConfig
\* raises AttributeError (thresholds are in tenths of a percent)
stop_loss_attr(name) ==
    IF name \notin StopLossConfigFields THEN AttributeError
    ELSE IF name = "high_vol_threshold" THEN high_vol_threshold
    ELSE IF name = "high_vol_tightening" THEN high_vol_tightening
    ELSE IF name = "regime_aware" THEN regime_aware
    ELSE None

\* the regime-aware threshold of the scan (effective_threshold)
effective_threshold(symbol) ==
    LET regime_prob == get_hmm_regime_probability(symbol)
        base == stop_loss_attr("stop_loss_threshold")
    IN IF base = AttributeError THEN AttributeError
       ELSE IF stop_loss_attr("regime_aware") /\ regime_prob /= None
               /\ regime_prob > stop_loss_attr("high_vol_threshold")
            THEN (base * stop_loss_attr("high_vol_tightening")) \div 100
            ELSE base

NoScan == [triggered |-> <<>>, evaluated |-> {}, error |-> FALSE]

\* The scan of the positions.  An exception raised by the body leaves the loop
\* and is logged by the handler (error); what was appended so far is returned.
\* evaluated: the symbols that got past the minimum-hold gate.
RECURSIVE ScanPositions(_, _, _, _, _)
ScanPositions(trackers, ps, i, current_time, acc) ==
    IF i > Len(ps) THEN acc
    ELSE LET pos == ps[i]
             symbol == pos.symbol
             skip == ScanPositions(trackers, ps, i + 1, current_time, acc)
         IN IF pos.position <= 0 THEN skip
            ELSE IF symbol \notin DOMAIN trackers THEN skip
            ELSE LET tracker == trackers[symbol]
                     current_price == pos.marketValue \div pos.position
                     avg_cost == pos.averageCost
                     seen == [acc EXCEPT !.evaluated = @ \cup {symbol}]
                 IN IF BelowMinHold(tracker, current_time) THEN skip
                    \* effective_threshold = self.config.stop_loss.stop_loss_threshold
                    ELSE IF effective_threshold(symbol) = AttributeError
                         THEN [seen EXCEPT !.error = TRUE]      \* AttributeError
                    \* loss_pct = ((current_price - avg_cost) / avg_cost) * 100
                    ELSE IF avg_cost = 0
                         THEN [seen EXCEPT !.error = TRUE]      \* ZeroDivisionError
                    ELSE IF current_price * 100
                              < get_effective_stop(tracker, trailing_percent, atr_multiplier)
                         THEN ScanPositions(trackers, ps, i + 1, current_time,
                                [seen EXCEPT !.triggered = Append(@,
                                    [symbol |-> symbol,
                                     loss_pct |-> <<(current_price - avg_cost) * 100, avg_cost>>])])
                    ELSE ScanPositions(trackers, ps, i + 1, current_time, seen)

\* the scan made by check_stop_loss_positions on trackers that were just updated
StopLossScan(trackers, b, current_time) ==
    IF ~enabled THEN NoScan
    ELSE IF ~ensure_ibkr_connection THEN NoScan
    ELSE ScanPositions(trackers, Positions(b), 1, current_time, NoScan)

(***************************************************************************)
(* AdvancedStopLossManager.execute_stop_loss_sell and process_stop_losses  *)
(***************************************************************************)
\* trade.orderStatus.status one second after placeOrder, or placeOrder raising
OrderStatuses == {"Filled", "Submitted", "Cancelled"}
SellOutcomes == OrderStatuses \cup {"PlaceOrderError"}

\* execute_stop_loss_sell returns True
SellAccepted(outcome) == outcome \in {"Filled", "Submitted"}

\* position_qty: the quantity of the first long entry of the symbol
RECURSIVE PositionQty(_, _, _)
PositionQty(ps, i, symbol) ==
    IF i > Len(ps) THEN 0
    ELSE IF ps[i].symbol = symbol /\ ps[i].position > 0 THEN ps[i].position
    ELSE PositionQty(ps, i + 1, symbol)

Abs(x) == IF x < 0 THEN -x ELSE x

NoSells == [orders |-> <<>>, executed |-> 0]

\* the loop of process_stop_losses over the reported positions;
\* orders: the SELL orders placed with the broker, executed: executed_sells
RECURSIVE SellLoop(_, _, _, _, _)
SellLoop(triggered, i, b, outcome, acc) ==
    IF i > Len(triggered) THEN acc
    ELSE LET symbol == triggered[i].symbol
             position_qty == PositionQty(Positions(b), 1, symbol)
             order == [symbol |-> symbol, action |-> "SELL", orderType |-> "MKT",
                       totalQuantity |-> Abs(position_qty),
                       status |-> outcome[symbol]]
         IN IF position_qty > 0
            THEN SellLoop(triggered, i + 1, b, outcome,
                    [orders |-> IF outcome[symbol] \in OrderStatuses
                                THEN Append(acc.orders, order) ELSE acc.orders,
                     executed |-> IF SellAccepted(outcome[symbol])
                                  THEN acc.executed + 1 ELSE acc.executed])
            ELSE SellLoop(triggered, i + 1, b, outcome, acc)

(***************************************************************************)
(* Exact fractions <<numerator, denominator>>, denominator > 0             *)
(***************************************************************************)
RECURSIVE GCD(_, _)
GCD(a, b) == IF b = 0 THEN a ELSE GCD(b, a % b)

Frac(n, d) ==
    LET g == GCD(Abs(n), Abs(d))
        sign == IF d < 0 THEN -1 ELSE 1
    IN <<sign * (n \div g), sign * (d \div g)>>

Whole(k) == <<k, 1>>
RAdd(x, y) == Frac(x[1] * y[2] + y[1] * x[2], x[2] * y[2])
RSub(x, y) == Frac(x[1] * y[2] - y[1] * x[2], x[2] * y[2])
RMul(x, y) == Frac(x[1] * y[1], x[2] * y[2])
RDiv(x, y) == Frac(x[1] * y[2], x[2] * y[1])
RGt(x, y) == x[1] * y[2] > y[1] * x[2]
RLe(x, y) == ~RGt(x, y)
RMax(x, y) == IF RGt(y, x) THEN y ELSE x

\* int(): truncation toward zero
Trunc(x) == IF x[1] >= 0 THEN x[1] \div x[2] ELSE -((-x[1]) \div x[2])

RECURSIVE RSum(_, _)
RSum(f, S) ==
    IF S = {} THEN Whole(0)
    ELSE LET x == CHOOSE y \in S : TRUE IN RAdd(f[x], RSum(f, S \ {x}))

(***************************************************************************)
(* AssetAllocation and PortfolioManager (src/portfolio_manager.py)         *)
(***************************************************************************)
AssetClass == {"equity", "fixed_income", "crypto"}

\* AssetAllocation(): 60% equity, 30% fixed income, 10% crypto
DefaultAllocation == [equity |-> 600, fixed_income |-> 300, crypto |-> 100]

AllocationTotal(a) == a.equity + a.fixed_income + a.crypto

\* (mutant) the tolerance is 10% instead of 1%
AllocationRaises_Loose(a) == Abs(AllocationTotal(a) - 1000) > 100

\* __post_init__ raises ValueError: abs(total - 1.0) > 0.01
AllocationRaises(a) == Abs(AllocationTotal(a) - 1000) > 10

equity_symbols == {}
fixed_income_symbols == {"TLT", "IEF", "SHY", "BND", "AGG"}
crypto_symbols == {"BTC-USD", "ETH-USD", "ADA-USD", "SOL-USD", "DOT-USD"}

\* CryptoTrader.supported_cryptos, the symbols the crypto workflow trades
supported_cryptos ==
    {"BTC-USD", "ETH-USD", "ADA-USD", "SOL-USD", "DOT-USD",
     "MATIC-USD", "AVAX-USD", "LINK-USD", "UNI-USD", "ATOM-USD"}

\* BondTrader.bond_etfs, the symbols the bond workflow trades
bond_etfs == {"TLT", "IEF", "SHY", "BND", "AGG"}

\* _get_asset_class: an unknown symbol is taken to be an equity
get_asset_class(symbol) ==
    IF symbol \in equity_symbols THEN "equity"
    ELSE IF symbol \in fixed_income_symbols THEN "fixed_income"
    ELSE IF symbol \in crypto_symbols THEN "crypto"
    ELSE "equity"

\* update_positions: the positions rebuilt from positions_data, with the
\* portfolio value total_value known at that moment
UpdatedPositions(positions_data, total_value) ==
    [symbol \in DOMAIN positions_data |->
        LET quantity == positions_data[symbol].qty
            market_value == positions_data[symbol].market_value
        IN [symbol |-> symbol,
            asset_class |-> get_asset_class(symbol),
            quantity |-> quantity,
            current_price |-> IF quantity /= 0 THEN Frac(market_value, quantity)
                              ELSE Whole(0),
            market_value |-> market_value,
            allocation_percentage |-> IF total_value > 0
                                      THEN Frac(market_value, total_value)
                                      ELSE Whole(0)]]

\* get_current_allocation()[asset_class]
get_current_allocation(pos, asset_class) ==
    RSum([s \in DOMAIN pos |-> pos[s].allocation_percentage],
         {s \in DOMAIN pos : pos[s].asset_class = asset_class})

\* target_allocation[asset_class]
target_allocation(alloc, asset_class) == Frac(alloc[asset_class], 1000)

\* (mutant) the band is 5% of the target instead of 5 percentage points
max_allowed_Relative(alloc, asset_class) ==
    RMul(target_allocation(alloc, asset_class), Frac(105, 100))

\* max_allowed = target_pct + 0.05
max_allowed(alloc, asset_class) ==
    RAdd(target_allocation(alloc, asset_class), Frac(5, 100))

\* can_trade_asset_class -> (ok, reason)
can_trade_asset_class(alloc, pos, total_value, asset_class, trade_value) ==
    IF total_value <= 0
    THEN [ok |-> FALSE, reason |-> "Valor de cartera no disponible"]
    ELSE LET current == get_current_allocation(pos, asset_class)
             new_allocation_pct ==
                 RDiv(RAdd(RMul(current, Whole(total_value)), Whole(trade_value)),
                      Whole(total_value))
         IN IF RGt(new_allocation_pct, max_allowed(alloc, asset_class))
            THEN [ok |-> FALSE, reason |-> "Excederia limite"]
            ELSE [ok |-> TRUE, reason |-> "OK"]

\* (mutant) the result is not clamped at 0
get_available_buying_power_Unclamped(alloc, pos, total_value, asset_class) ==
    IF total_value <= 0 THEN Whole(0)
    ELSE RSub(RMul(RMul(target_allocation(alloc, asset_class), Whole(total_value)),
                   Frac(105, 100)),
              RMul(get_current_allocation(pos, asset_class), Whole(total_value)))

\* get_available_buying_power
get_available_buying_power(alloc, pos, total_value, asset_class) ==
    IF total_value <= 0 THEN Whole(0)
    ELSE LET current_value ==
                 RMul(get_current_allocation(pos, asset_class), Whole(total_value))
             target_value ==
                 RMul(target_allocation(alloc, asset_class), Whole(total_value))
             max_value == RMul(target_value, Frac(105, 100))
         IN RMax(Whole(0), RSub(max_value, current_value))

Min(a, b) == IF a <= b THEN a ELSE b

\* (mutant) the 50% veto is missing
get_recommended_trade_size_NoVeto(alloc, pos, total_value, asset_class, current_price) ==
    LET available_power == get_available_buying_power(alloc, pos, total_value, asset_class)
    IN IF RLe(available_power, Whole(0)) THEN 0
       ELSE LET max_trade_value ==
                    IF total_value < 100
                    THEN RMul(Whole(total_value), Frac(20, 100))
                    ELSE RMul(available_power, Frac(10, 100))
                max_shares == Trunc(RDiv(max_trade_value, Whole(current_price)))
            IN Max(1, Min(max_shares, 10))

\* (mutant) the floor of one share is missing
get_recommended_trade_size_NoMinimum(alloc, pos, total_value, asset_class, current_price) ==
    LET available_power == get_available_buying_power(alloc, pos, total_value, asset_class)
    IN IF RLe(available_power, Whole(0)) THEN 0
       ELSE LET max_trade_value ==
                    IF total_value < 100
                    THEN RMul(Whole(total_value), Frac(20, 100))
                    ELSE RMul(available_power, Frac(10, 100))
                max_shares == Trunc(RDiv(max_trade_value, Whole(current_price)))
                recommended_shares == Min(max_shares, 10)
                trade_value == recommended_shares * current_price
            IN IF RGt(Whole(trade_value), RMul(Whole(total_value), Frac(5, 10)))
               THEN 0
               ELSE recommended_shares

\* get_recommended_trade_size
get_recommended_trade_size(alloc, pos, total_value, asset_class, current_price) ==
    LET available_power == get_available_buying_power(alloc, pos, total_value, asset_class)
    IN IF RLe(available_power, Whole(0)) THEN 0
       ELSE LET max_trade_value ==
                    IF total_value < 100
                    THEN RMul(Whole(total_value), Frac(20, 100))
                    ELSE RMul(available_power, Frac(10, 100))
                max_shares == Trunc(RDiv(max_trade_value, Whole(current_price)))
                recommended_shares == Max(1, Min(max_shares, 10))
                trade_value == recommended_shares * current_price
            IN IF RGt(Whole(trade_value), RMul(Whole(total_value), Frac(5, 10)))
               THEN 0
               ELSE recommended_shares

\* inputs of the ledger
LedgerSymbols == {"AAPL", "MATIC-USD", "TLT", "BTC-USD"}
MarketValues == {20, 610}
PortfolioValues == {0, 80, 1000}
TradeValues == {20, 40, 50}
TradePrices == {5, 20, 50, 100}
AllocationInputs ==
    {DefaultAllocation,
     [equity |-> 600, fixed_income |-> 295, crypto |-> 100],
     [equity |-> 600, fixed_income |-> 300, crypto |-> 200],
     [equity |-> 500, fixed_income |-> 300, crypto |-> 100]}
PositionsData ==
    UNION {[S -> [qty : {1}, market_value : MarketValues]] : S \in SUBSET LedgerSymbols}

NoCall == [op |-> "none", asset_class |-> "equity", arg |-> 0, raised |-> FALSE,
           ok |-> FALSE, reason |-> "", amount |-> <<0, 1>>, shares |-> 0]

(***************************************************************************)
(* State                                                                   *)
(***************************************************************************)
NoRun == [op |-> "none", triggered |-> <<>>, evaluated |-> {}, error |-> FALSE,
          orders |-> <<>>, executed |-> 0]

\* what the book can hold for one symbol: nothing, a short position, or a long
\* position at any price (only the price of a long position is ever read)
Flat == [position |-> 0, price |-> 100, averageCost |-> 100]
BrokerEntries ==
    {Flat} \cup {[Flat EXCEPT !.position = q] : q \in {q \in Qtys : q < 0}}
           \cup {e \in [position : Qtys, price : Prices, averageCost : AvgCosts] :
                    e.position > 0}

InitStop ==
    /\ now = 0
    /\ connected = TRUE
    /\ broker = [s \in SymbolSet |-> Flat]
    /\ position_trackers = <<>>
    /\ last_run = NoRun

\* portfolio_manager = PortfolioManager()
InitLedger ==
    /\ allocation = DefaultAllocation
    /\ positions = <<>>
    /\ total_portfolio_value = 0
    /\ last_call = NoCall

(***************************************************************************)
(* Trading sessions: the legacy bot (src/robotrading.py), the robust bot   *)
(* (src/robotrading_improved.py) and the scheduler service                 *)
(* (src/scheduler_service.py)                                              *)
(***************************************************************************)
Workflows == {"equity", "bonds", "crypto"}
SessionTypes == {"MORNING", "AFTERNOON"}

\* what a signal generator returns for a symbol: SELL, HOLD, BUY
Signals == {-1, 0, 1}

\* the symbols the signal generators of a session cover, in the order the code
\* walks them; no crypto pair is quoted in this market
EquityOrder == <<"AAPL">>
BondOrder == <<"TLT">>
CryptoOrder == <<>>
Range(seq) == {seq[i] : i \in 1..Len(seq)}

\* the values SHARES_PER_TRADE can have (an environment variable the legacy
\* bot reads when it starts, 10 unless set), and trading_config.shares_per_trade
SharesPerTradeValues == {1, 2}
shares_per_trade == 1

\* TradingConfig.stop_loss_threshold, in percent
stop_loss_threshold == -5

\* the account summary: NetLiquidation, and the values AvailableFunds can take
NetLiquidation == 1000
AvailableFundsValues == {0, 1000}

\* names bound at module level in robotrading_improved.py: the imports from
\* portfolio_manager bind PortfolioManager, AssetClass and AssetAllocation, and
\* the PortfolioManager instance of run_bot_robust is a local variable
RobustModuleGlobals ==
    {"config", "trading_config", "email_config", "logger", "trading_logger",
     "trading_session", "ib", "ib_lock", "shutdown_flag",
     "PortfolioManager", "AssetClass", "AssetAllocation",
     "CryptoTrader", "BondTrader"}

\* the methods PortfolioManager defines
PortfolioManagerMethods ==
    {"update_portfolio_value", "update_positions", "_get_asset_class",
     "get_current_allocation", "get_allocation_status", "can_trade_asset_class",
     "get_available_buying_power", "get_recommended_trade_size",
     "get_portfolio_summary", "log_portfolio_status"}

\* the attributes CryptoTrader.__init__ sets
CryptoTraderFields == {"api_key", "api_secret", "base_url", "supported_cryptos"}

\* the call never returns: ensure_ibkr_connection holds ib_lock and calls
\* initialize_ibkr, which waits for the same non-reentrant lock
Blocked == "Blocked"

\* ensure_ibkr_connection of robotrading_improved.py
ensure_ibkr_connection_robust == IF connected THEN "True" ELSE Blocked

\* loss_pct <= stop_loss_threshold for a long position with avg_cost > 0,
\* loss_pct = ((current_price - avg_cost) / avg_cost) * 100
LossTriggers(pos) ==
    /\ pos.position > 0
    /\ pos.averageCost > 0
    /\ (pos.marketValue \div pos.position - pos.averageCost) * 100
          <= stop_loss_threshold * pos.averageCost

\* check_stop_loss_positions of the legacy bot and
\* check_basic_stop_loss_positions of the robust one: the losing positions
check_basic_stop_loss_positions(b) == SelectSeq(Positions(b), LossTriggers)

\* check_profitable_positions filtered by run_bot: profit_pct > 2.0
ProfitTriggers(pos) ==
    /\ pos.position > 0
    /\ pos.averageCost > 0
    /\ (pos.marketValue \div pos.position - pos.averageCost) * 100
          > 2 * pos.averageCost

check_profitable_positions(b) == SelectSeq(Positions(b), ProfitTriggers)

\* the entries (symbol, signal) of a signal list with the given signal
RECURSIVE SignalList(_, _, _, _)
SignalList(order, signals, signal, i) ==
    IF i > Len(order) THEN <<>>
    ELSE (IF signals[order[i]] = signal
          THEN <<[symbol |-> order[i],
                  action |-> IF signal = 1 THEN "BUY" ELSE "SELL",
                  stop_loss |-> FALSE]>>
          ELSE <<>>) \o SignalList(order, signals, signal, i + 1)

\* sell_signals.append((symbol, -1)) for each reported position; stop_loss
\* remembers that the entry comes from the stop-loss check
SellEntries(ps, from_stop_loss) ==
    [i \in 1..Len(ps) |-> [symbol |-> ps[i].symbol, action |-> "SELL",
                           stop_loss |-> from_stop_loss]]

\* positions_data built by execute_trade from ib.positions()
PositionsDataOf(b) ==
    [s \in {x \in SymbolSet : b[x].position /= 0} |->
        [qty |-> b[s].position, market_value |-> b[s].position * b[s].price]]

\* one message handed to the notifier; sent: the SMTP exchange succeeded
AlertMessage(entry, sent) ==
    [kind |-> "alert", symbol |-> entry.symbol, action |-> entry.action,
     stop_loss |-> entry.stop_loss, session_type |-> "", total_trades |-> 0,
     stocks_purchased |-> <<>>, stocks_sold |-> <<>>, sent |-> sent]

\* the content of the summary e-mail: session type, total trades, purchases
\* and sales of the session record
SummaryMessage(session, sent) ==
    [kind |-> "summary", symbol |-> "", action |-> "", stop_loss |-> FALSE,
     session_type |-> session.session_type,
     total_trades |-> session.total_trades,
     stocks_purchased |-> session.stocks_purchased,
     stocks_sold |-> session.stocks_sold, sent |-> sent]

\* (mutant) only the session type is set anew
reset_trading_session_TypeOnly(session, session_type) ==
    [session EXCEPT !.session_type = session_type]

\* reset_trading_session of the legacy bot: the record session is replaced
reset_trading_session(session, session_type) ==
    [session_type |-> session_type, stocks_purchased |-> <<>>,
     stocks_sold |-> <<>>, total_trades |-> 0]

\* trading_session as the module defines it
NewTradingSession(session_type) ==
    [session_type |-> session_type, stocks_purchased |-> <<>>,
     stocks_sold |-> <<>>, total_trades |-> 0]

\* send_email_alert / send_email_alert_robust: the trade is added to the
\* session record before the message is sent
RecordTrade(session, entry) ==
    [session EXCEPT
        !.stocks_purchased = IF entry.action = "BUY"
                             THEN Append(@, entry.symbol) ELSE @,
        !.stocks_sold = IF entry.action = "BUY"
                        THEN @ ELSE Append(@, entry.symbol),
        !.total_trades = @ + 1]

RECURSIVE RecordTrades(_, _, _)
RecordTrades(session, entries, i) ==
    IF i > Len(entries) THEN session
    ELSE RecordTrades(RecordTrade(session, entries[i]), entries, i + 1)

\* the alerts of a list of traded entries, in the order they are sent
AlertMessages(entries, sent) ==
    [i \in 1..Len(entries) |-> AlertMessage(entries[i], sent)]

(***************************************************************************)
(* execute_trade of the legacy bot                                         *)
(***************************************************************************)
\* the BUY branch of execute_trade once the ledger has answered: allocation
\* limit, recommended size, min(recommended, SHARES_PER_TRADE), available
\* funds, and "already holding, skip BUY"
BuyOrder(entry, can_trade, recommended_shares, funds, latest_price, position_qty, SHARES_PER_TRADE) ==
    IF ~can_trade THEN <<>>
    ELSE IF recommended_shares <= 0 THEN <<>>
    ELSE IF funds < latest_price * Min(recommended_shares, SHARES_PER_TRADE) THEN <<>>
    ELSE IF position_qty > 0 THEN <<>>
    ELSE <<[symbol |-> entry.symbol, action |-> "BUY",
            totalQuantity |-> Min(recommended_shares, SHARES_PER_TRADE),
            stop_loss |-> entry.stop_loss]>>

\* the SELL branch of execute_trade: SHARES_PER_TRADE shares, when that many
\* are held
SellOrder(entry, position_qty, SHARES_PER_TRADE) ==
    IF position_qty < SHARES_PER_TRADE THEN <<>>
    ELSE <<[symbol |-> entry.symbol, action |-> "SELL",
            totalQuantity |-> SHARES_PER_TRADE, stop_loss |-> entry.stop_loss]>>

\* the order execute_trade submits with ib.placeOrder: <<order>>, or <<>> when it
\* returns None before submitting
execute_trade(entry, asset_class, alloc, b, funds, SHARES_PER_TRADE) ==
    IF b[entry.symbol].price <= 0 THEN <<>>
    ELSE IF entry.action = "BUY"
    THEN BuyOrder(entry,
            can_trade_asset_class(alloc,
                UpdatedPositions(PositionsDataOf(b), NetLiquidation),
                NetLiquidation, asset_class,
                b[entry.symbol].price * SHARES_PER_TRADE).ok,
            get_recommended_trade_size(alloc,
                UpdatedPositions(PositionsDataOf(b), NetLiquidation),
                NetLiquidation, asset_class, b[entry.symbol].price),
            funds, b[entry.symbol].price, b[entry.symbol].position,
            SHARES_PER_TRADE)
    ELSE SellOrder(entry, b[entry.symbol].position, SHARES_PER_TRADE)

NoTrades == [placed |-> <<>>, alerts |-> <<>>, blocked |-> FALSE,
             trades_executed |-> 0]

\* what one pass of the loop adds: the order is submitted and, when the broker
\* reports it Filled or Submitted, execute_trade returns the trade and the
\* e-mail alert is sent
LegacyTraded(acc, entry, order, status) ==
    IF order = <<>> THEN acc
    ELSE IF SellAccepted(status)
    THEN [acc EXCEPT !.placed = @ \o order,
                     !.alerts = Append(@, entry),
                     !.trades_executed = @ + 1]
    ELSE [acc EXCEPT !.placed = @ \o order]

\* for symbol, signal in all_..._signals: order = execute_trade(...).  The
\* positions read during one run are those the broker reported when it began;
\* fills are reported later (BrokerUpdate)
RECURSIVE LegacyTradeLoop(_, _, _, _, _, _, _, _, _)
LegacyTradeLoop(entries, i, asset_class, alloc, b, funds, status, SHARES_PER_TRADE, acc) ==
    IF i > Len(entries) THEN acc
    ELSE LegacyTradeLoop(entries, i + 1, asset_class, alloc, b, funds, status,
            SHARES_PER_TRADE,
            LegacyTraded(acc, entries[i],
                         execute_trade(entries[i], asset_class, alloc, b, funds,
                                       SHARES_PER_TRADE),
                         status))

\* the entries the equity part of run_bot trades, in the order it trades them:
\* buy signals, then sell signals, profit taking (after 3 PM), stop losses
LegacyEquityEntries(signals, b, after_3pm) ==
    SignalList(EquityOrder, signals, 1, 1)
        \o SignalList(EquityOrder, signals, -1, 1)
        \o (IF after_3pm THEN SellEntries(check_profitable_positions(b), FALSE)
            ELSE <<>>)
        \o SellEntries(check_basic_stop_loss_positions(b), TRUE)

\* the body of run_bot: the equity, bond and crypto loops.  ib_connected: the
\* legacy client is still connected; once it is not, ib.accountSummary() fails
\* in every execute_trade, which then returns None
run_bot(ib_connected, equity_signals, bond_signals, crypto_signals, alloc, b, funds, status, after_3pm, SHARES_PER_TRADE) ==
    IF ~ib_connected THEN NoTrades ELSE
    LET equity == LegacyTradeLoop(LegacyEquityEntries(equity_signals, b, after_3pm),
                                  1, "equity", alloc, b, funds, status,
                                  SHARES_PER_TRADE, NoTrades)
        bonds == LegacyTradeLoop(SignalList(BondOrder, bond_signals, 1, 1)
                                    \o SignalList(BondOrder, bond_signals, -1, 1),
                                 1, "fixed_income", alloc, b, funds, status,
                                 SHARES_PER_TRADE, equity)
    IN LegacyTradeLoop(SignalList(CryptoOrder, crypto_signals, 1, 1)
                          \o SignalList(CryptoOrder, crypto_signals, -1, 1),
                       1, "crypto", alloc, b, funds, status, SHARES_PER_TRADE,
                       bonds)

(***************************************************************************)
(* execute_trade_robust and the workflows of the robust bot                *)
(***************************************************************************)
\* execute_trade_robust: blocked when the connection is lost; no order when the
\* body raises (NameError on portfolio_manager, AttributeError on
\* get_available_allocation: both are caught, logged, and None is returned);
\* else the order that is placed and reported as filled
execute_trade_robust(entry) ==
    IF ensure_ibkr_connection_robust = Blocked
    THEN [blocked |-> TRUE, order |-> <<>>]
    ELSE IF "portfolio_manager" \notin RobustModuleGlobals
    THEN [blocked |-> FALSE, order |-> <<>>]
    ELSE IF "get_available_allocation" \notin PortfolioManagerMethods
    THEN [blocked |-> FALSE, order |-> <<>>]
    ELSE [blocked |-> FALSE,
          order |-> <<[symbol |-> entry.symbol, action |-> entry.action,
                       totalQuantity |-> shares_per_trade,
                       stop_loss |-> entry.stop_loss]>>]

\* what one pass of the loop adds: if order: trades_executed += 1 and
\* send_email_alert_robust(...)
RobustTraded(acc, entry, call) ==
    IF call.blocked THEN [acc EXCEPT !.blocked = TRUE]
    ELSE IF call.order = <<>> THEN acc
    ELSE [acc EXCEPT !.placed = @ \o call.order,
                     !.alerts = Append(@, entry),
                     !.trades_executed = @ + 1]

\* for symbol, signal in ...: order = execute_trade_robust(...); a call that
\* never returns ends the loop
RECURSIVE RobustTradeLoop(_, _, _)
RobustTradeLoop(entries, i, acc) ==
    IF i > Len(entries) THEN acc
    ELSE IF acc.blocked THEN acc
    ELSE RobustTradeLoop(entries, i + 1,
            RobustTraded(acc, entries[i], execute_trade_robust(entries[i])))

Failed == [success |-> FALSE, trades_executed |-> 0, blocked |-> FALSE,
           placed |-> <<>>, alerts |-> <<>>]

\* TradingResult(success=True, data={'trades_executed': ...}), or the workflow
\* never returning
Completed(loop) ==
    [success |-> TRUE, trades_executed |-> loop.trades_executed,
     blocked |-> loop.blocked, placed |-> loop.placed, alerts |-> loop.alerts]

\* run_equity_trading.  top_stocks_ok: get_top_stocks_cached returned the
\* table (it raises rather than return an empty one); advanced: the advanced
\* stop-loss engine handled the exits itself, else the basic check appends them
\* to the sell signals.  With the table at hand the workflow assigns
\* portfolio_manager.equity_symbols and raises NameError when no such global
\* exists; the except clause turns every exception into a failed result.
run_equity_trading(top_stocks_ok, signals, advanced, b) ==
    IF ~top_stocks_ok THEN Failed
    ELSE IF "portfolio_manager" \notin RobustModuleGlobals THEN Failed
    ELSE LET buy_signals == SignalList(EquityOrder, signals, 1, 1)
             sell_signals == SignalList(EquityOrder, signals, -1, 1)
             stops == IF advanced THEN <<>>
                      ELSE SellEntries(check_basic_stop_loss_positions(b), TRUE)
         IN IF ~advanced /\ ensure_ibkr_connection_robust = Blocked
            THEN [Failed EXCEPT !.blocked = TRUE]
            ELSE Completed(RobustTradeLoop(buy_signals \o sell_signals \o stops,
                                           1, NoTrades))

\* run_bond_trading.  signals_ok: generate_bond_signals returned
run_bond_trading(signals_ok, signals) ==
    IF ~signals_ok THEN Failed
    ELSE Completed(RobustTradeLoop(SignalList(BondOrder, signals, 1, 1)
                                      \o SignalList(BondOrder, signals, -1, 1),
                                   1, NoTrades))

\* run_crypto_trading: it reads crypto_trader.crypto_symbols
run_crypto_trading(signals) ==
    IF "crypto_symbols" \notin CryptoTraderFields THEN Failed
    ELSE Completed(RobustTradeLoop(SignalList(CryptoOrder, signals, 1, 1)
                                      \o SignalList(CryptoOrder, signals, -1, 1),
                                   1, NoTrades))

\* run_equity_trading got as far as generate_signals_robust
EquitySignalsGenerated(top_stocks_ok) ==
    top_stocks_ok /\ "portfolio_manager" \in RobustModuleGlobals

\* the two bots are separate programs, each with its own module state; the one
\* that is started on the account is the one that runs from then on
NoCycle == [orchestrator |-> "none", buy_signals |-> {}, losing |-> {},
            found |-> NewTradingSession(""), started_with |-> NewTradingSession("")]

\* what a session starts from: found is the session record as the session was
\* entered, started_with the record as its trading began
NewCycle(orchestrator, found, started_with) ==
    [NoCycle EXCEPT !.orchestrator = orchestrator, !.found = found,
                    !.started_with = started_with]

\* the symbols the equity signals say to buy, and the symbols held at a loss
\* beyond the stop-loss threshold, when the equity part of a session runs
EquityCycle(c, signals, b) ==
    [c EXCEPT !.buy_signals = {s \in Range(EquityOrder) : signals[s] = 1},
              !.losing = {s \in SymbolSet :
                             \E i \in 1..Len(Positions(b)) :
                                 /\ Positions(b)[i].symbol = s
                                 /\ LossTriggers(Positions(b)[i])}]

InitSession ==
    /\ shutdown_flag = FALSE
    /\ session_pc = "idle"
    /\ results = <<>>
    /\ trading_session = NewTradingSession("")
    /\ outbox = <<>>
    /\ placed = <<>>
    /\ cycle = NoCycle
    /\ legacy_connected = TRUE
    /\ legacy_trading_session = NewTradingSession("")

(***************************************************************************)
(* Retry decorator and circuit breaker (src/retry_utils.py)                *)
(***************************************************************************)
MaxClock == 4           \* the wall clock of the breaker stops after MaxClock minutes

\* RetryConfig of retry_api_call and retry_ibkr_call as robotrading_improved
\* applies them (max_retries=3); the circuit-breaker timeout is in minutes
max_retries == 3
circuit_breaker_threshold == 5
circuit_breaker_timeout == 1

\* the wrapped functions, by func_key
FuncKeys == {"get_top_stocks_cached", "execute_trade_robust"}

\* what one invocation of a wrapped function does: it returns (ok), raises an
\* exception of the kinds the decorator retries on (fail), or raises another
\* exception (other)
Outcomes == {"ok", "fail", "other"}
Attempts == 1..(max_retries + 1)

\* CircuitBreaker(config)
CircuitBreaker == [failure_count |-> 0, last_failure_time |-> None, state |-> "closed"]

\* (mutant) an open circuit lets every call through
can_execute_AlwaysOpenGate(breaker, t) ==
    [allowed |-> TRUE, breaker |-> breaker]

\* can_execute at time t: the answer, and the breaker it leaves (an open
\* circuit whose timeout has elapsed becomes half-open)
can_execute(breaker, t) ==
    IF breaker.state = "closed" THEN [allowed |-> TRUE, breaker |-> breaker]
    ELSE IF breaker.state = "open"
    THEN IF t - breaker.last_failure_time > circuit_breaker_timeout
         THEN [allowed |-> TRUE, breaker |-> [breaker EXCEPT !.state = "half_open"]]
         ELSE [allowed |-> FALSE, breaker |-> breaker]
    ELSE [allowed |-> TRUE, breaker |-> breaker]

on_success(breaker) == [breaker EXCEPT !.failure_count = 0, !.state = "closed"]

on_failure(breaker, t) ==
    [breaker EXCEPT !.failure_count = @ + 1,
                    !.last_failure_time = t,
                    !.state = IF breaker.failure_count + 1 >= circuit_breaker_threshold
                              THEN "open" ELSE @]

\* what a call of the wrapper ends with: the breaker, the number of invocations
\* of the wrapped function, how it ended (returned, raised, circuit_open) and
\* the invocation whose exception is raised (0: none of them)
WrapperEnd(breaker, invocations, result, exception) ==
    [breaker |-> breaker, invocations |-> invocations, result |-> result,
     exception |-> exception]

\* one pass of "for attempt in range(config.max_retries + 1)" once
\* breaker.can_execute() has answered; the sleep between two attempts is at
\* most max_delay, which does not exceed the circuit-breaker timeout
RECURSIVE wrapper_loop(_, _, _, _)
wrapper_pass(gate, outcomes, attempt, t) ==
    IF ~gate.allowed
    THEN WrapperEnd(gate.breaker, attempt, "circuit_open", 0)
    ELSE IF outcomes[attempt + 1] = "ok"
    THEN WrapperEnd(on_success(gate.breaker), attempt + 1, "returned", 0)
    ELSE IF outcomes[attempt + 1] = "other"
    THEN WrapperEnd(gate.breaker, attempt + 1, "raised", attempt + 1)
    ELSE IF attempt = max_retries
    THEN WrapperEnd(on_failure(gate.breaker, t), attempt + 1, "raised", attempt + 1)
    ELSE wrapper_loop(on_failure(gate.breaker, t), outcomes, attempt + 1, t)

\* (mutant) one attempt more than max_retries + 1 is never cut short
wrapper_loop_NoBreakerCheck(breaker, outcomes, attempt, t) ==
    wrapper_pass([allowed |-> TRUE, breaker |-> breaker], outcomes, attempt, t)

\* the loop of retry_with_backoff.wrapper from attempt on
wrapper_loop(breaker, outcomes, attempt, t) ==
    wrapper_pass(can_execute(breaker, t), outcomes, attempt, t)

\* the breaker of a function: created on its first call
BreakerOf(breakers, func_key) ==
    IF func_key \in DOMAIN breakers THEN breakers[func_key] ELSE CircuitBreaker

\* (mutant) an exception raised in the body of execute_trade_robust reaches
\* the retry wrapper
trade_outcome_Propagates(call) == IF call.order = <<>> THEN "fail" ELSE "ok"

\* what the wrapper sees of one invocation of execute_trade_robust: the body
\* catches every exception and returns None, so each invocation returns
trade_outcome(call) == "ok"

NoWrap == [func |-> "none", before |-> CircuitBreaker, at |-> 0, invocations |-> 0,
           result |-> "none", exception |-> 0, outcomes |-> <<>>, orders |-> 0]

InitRetry ==
    /\ wall_time = 0
    /\ circuit_breakers = <<>>
    /\ last_wrap = NoWrap

(***************************************************************************)
(* The shared broker session and its lock (src/robotrading_improved.py)    *)
(***************************************************************************)
\* the threads of the process that use the broker session
Threads == {"main", "worker"}

\* ib_lock = threading.Lock(): free, or held by one thread; a threading.Lock
\* is not reentrant
Free == "free"

InitConn ==
    /\ ib_lock = Free
    /\ conn_pc = [t \in Threads |-> "idle"]
    /\ conn_outer = [t \in Threads |-> "none"]
    /\ conn_ret = [t \in Threads |-> None]

(***************************************************************************)
(* The data cache (src/data_cache.py)                                      *)
(***************************************************************************)
MaxCacheTime == 2       \* the clock of the cache stops after MaxCacheTime periods of 5 minutes
MaxEntries == 3         \* entries the cache holds at most

\* ttl of cache_yfinance_data and cache_alpha_vantage_data, in periods of 5 minutes
cache_ttl == 1

Periods == {"1y", "1d"}
CachedData == {"data"}

\* json.dumps(params, sort_keys=True) behind the source name, which the md5 of
\* _generate_key digests: the key is the text, parameter names in sorted order
generate_key(source, names, params) ==
    <<source>> \o names \o [i \in 1..Len(names) |-> params[names[i]]]

\* the keys of the three parameter dictionaries CachedDataProvider builds
YfinanceKey(symbol, period) ==
    generate_key("yfinance", <<"period", "symbol">>, [symbol |-> symbol, period |-> period])

AlphaVantageKey(symbol, function) ==
    generate_key("alpha_vantage", <<"function", "symbol">>,
                 [symbol |-> symbol, function |-> function])

SymbolOnlyKey(source, symbol) ==
    generate_key(source, <<"symbol">>, [symbol |-> symbol])

\* CacheEntry.is_expired at time t
is_expired(entry, t) == t - entry.timestamp > entry.ttl

\* DataCache.get: what it returns
cache_get_value(c, key, t) ==
    IF key \in DOMAIN c /\ ~is_expired(c[key], t) THEN c[key].data ELSE None

Without(c, keys) == [k \in DOMAIN c \ keys |-> c[k]]

\* DataCache.get: the cache it leaves (an expired entry is removed)
cache_get(c, key, t) ==
    IF key \in DOMAIN c /\ is_expired(c[key], t) THEN Without(c, {key}) ELSE c

\* DataCache.set
cache_set(c, source, key, data, ttl, t) ==
    (key :> [data |-> data, timestamp |-> t, ttl |-> ttl, source |-> source, key |-> key]) @@ c

\* DataCache.invalidate with parameters given: the entry under their key goes
cache_invalidate(c, source, key) ==
    Without(c, IF key \in DOMAIN c THEN {key} ELSE {})

\* CachedDataProvider.invalidate_symbol_data
invalidate_symbol_data(c, symbol) ==
    cache_invalidate(cache_invalidate(c, "yfinance", SymbolOnlyKey("yfinance", symbol)),
                     "alpha_vantage", SymbolOnlyKey("alpha_vantage", symbol))

NoCacheCall == [op |-> "none", symbol |-> "", period |-> "", value |-> None]

InitCache ==
    /\ cache = <<>>
    /\ cache_time = 0
    /\ cache_ret = NoCacheCall

(***************************************************************************)
(* The scheduler service (src/scheduler_service.py)                        *)
(***************************************************************************)
SchedStep == 30         \* minutes the local clock advances between two looks at it

MinutesPerDay == 24 * 60

\* setup_schedule: the local times of the jobs, Monday (0) to Friday (4)
JobTimes == [MORNING |-> 14 * 60, AFTERNOON |-> 20 * 60 + 30]
JobWeekdays == 0..4

\* the jobs that schedule.run_pending() finds due at local time t, done being
\* the jobs that have already run that day
DueJobs(t, done) ==
    {j \in SessionTypes \ done : t.weekday \in JobWeekdays /\ t.minute >= JobTimes[j]}

\* _is_market_open at local time t: a weekday, from 9:30 to 16:00
is_market_open(t) ==
    /\ t.weekday < 5
    /\ 9 * 60 + 30 <= t.minute
    /\ t.minute <= 16 * 60

\* _run_session: how it ends.  run_count, error_count and last_run, which only
\* feed get_status, are left out
run_session(flag_set, t, bot_raises) ==
    IF flag_set THEN "shutdown"
    ELSE IF ~is_market_open(t) THEN "closed"
    ELSE IF bot_raises THEN "failed"
    ELSE "completed"

NoSession == [session_type |-> "none", outcome |-> "none", weekday |-> 0, minute |-> 0]

InitSchedule ==
    /\ sched_now = [weekday |-> 0, minute |-> 0]
    /\ sched_done = {}
    /\ sched_last = NoSession

Init ==
    /\ InitStop /\ InitLedger /\ InitSession /\ InitRetry /\ InitConn /\ InitCache
    /\ InitSchedule

(***************************************************************************)
(* Environment                                                             *)
(***************************************************************************)
\* time passes
Tick ==
    /\ now + TickMinutes <= MaxTicks * TickMinutes
    /\ now' = now + TickMinutes
    /\ last_run' = NoRun
    /\ UNCHANGED <<connected, broker, position_trackers>>
    /\ UNCHANGED ledgerVars
    /\ UNCHANGED sessionVars
    /\ UNCHANGED restVars

\* the market moves, or a fill changes what is held of a symbol
BrokerUpdate ==
    \E s \in SymbolSet, e \in BrokerEntries :
        /\ e /= broker[s]
        /\ broker' = [broker EXCEPT ![s] = e]
        /\ last_run' = NoRun
        /\ UNCHANGED <<now, connected, position_trackers>>
        /\ UNCHANGED ledgerVars
        /\ UNCHANGED sessionVars
        /\ UNCHANGED restVars

\* the broker session drops or comes back
ConnectionChange ==
    /\ connected' = ~connected
    /\ last_run' = NoRun
    /\ UNCHANGED <<now, broker, position_trackers>>
    /\ UNCHANGED ledgerVars
    /\ UNCHANGED sessionVars
    /\ UNCHANGED restVars

(***************************************************************************)
(* Operations of the engine                                                *)
(***************************************************************************)
\* the symbols calculate_atr can be asked about in one cycle
LongSymbols(b) == {s \in SymbolSet : b[s].position > 0}

\* update_position_trackers()
UpdatePositionTrackers ==
    \E atr \in [LongSymbols(broker) -> ATRValues] :
        /\ position_trackers' = UpdatedTrackers(position_trackers, broker, now, atr)
        /\ last_run' = [NoRun EXCEPT !.op = "update"]
        /\ UNCHANGED <<now, connected, broker>>
        /\ UNCHANGED ledgerVars
        /\ UNCHANGED sessionVars
        /\ UNCHANGED restVars

\* check_stop_loss_positions()
CheckStopLossPositions ==
    \E atr \in [LongSymbols(broker) -> ATRValues] :
        LET trackers == IF enabled
                        THEN UpdatedTrackers(position_trackers, broker, now, atr)
                        ELSE position_trackers
            scan == StopLossScan(trackers, broker, now)
        IN /\ position_trackers' = trackers
           /\ last_run' = [NoRun EXCEPT !.op = "check",
                                        !.triggered = scan.triggered,
                                        !.evaluated = scan.evaluated,
                                        !.error = scan.error]
           /\ UNCHANGED <<now, connected, broker>>
           /\ UNCHANGED ledgerVars
           /\ UNCHANGED sessionVars
           /\ UNCHANGED restVars

\* process_stop_losses(): the check, then one sell per reported symbol
ProcessStopLosses ==
    \E atr \in [LongSymbols(broker) -> ATRValues] :
        LET trackers == IF enabled
                        THEN UpdatedTrackers(position_trackers, broker, now, atr)
                        ELSE position_trackers
            scan == StopLossScan(trackers, broker, now)
            reported == {scan.triggered[i].symbol : i \in 1..Len(scan.triggered)}
        IN \E outcome \in [reported -> SellOutcomes] :
            LET sold == SellLoop(scan.triggered, 1, broker, outcome, NoSells)
            IN /\ position_trackers' = trackers
               /\ last_run' = [NoRun EXCEPT !.op = "process",
                                            !.triggered = scan.triggered,
                                            !.evaluated = scan.evaluated,
                                            !.error = scan.error,
                                            !.orders = sold.orders,
                                            !.executed = sold.executed]
               /\ UNCHANGED <<now, connected, broker>>
               /\ UNCHANGED ledgerVars
               /\ UNCHANGED sessionVars
               /\ UNCHANGED restVars

NextStop ==
    \/ Tick
    \/ BrokerUpdate
    \/ ConnectionChange
    \/ UpdatePositionTrackers
    \/ CheckStopLossPositions
    \/ ProcessStopLosses

SpecStop == Init /\ [][NextStop]_vars

(***************************************************************************)
(* Operations of the allocation ledger                                     *)
(***************************************************************************)
\* PortfolioManager(AssetAllocation(equity, fixed_income, crypto)): when the
\* allocation fails validation the exception leaves the constructor call and
\* no ledger replaces the current one
NewPortfolioManager ==
    \E a \in AllocationInputs :
        IF AllocationRaises(a)
        THEN /\ last_call' = [NoCall EXCEPT !.op = "AssetAllocation",
                                            !.arg = AllocationTotal(a),
                                            !.raised = TRUE]
             /\ UNCHANGED <<allocation, positions, total_portfolio_value>>
             /\ UNCHANGED stopVars
             /\ UNCHANGED sessionVars
             /\ UNCHANGED restVars
        ELSE /\ allocation' = a
             /\ positions' = <<>>
             /\ total_portfolio_value' = 0
             /\ last_call' = [NoCall EXCEPT !.op = "AssetAllocation",
                                            !.arg = AllocationTotal(a)]
             /\ UNCHANGED stopVars
             /\ UNCHANGED sessionVars
             /\ UNCHANGED restVars

\* update_portfolio_value(total_value)
UpdatePortfolioValue ==
    \E total_value \in PortfolioValues :
        /\ total_portfolio_value' = total_value
        /\ last_call' = [NoCall EXCEPT !.op = "update_portfolio_value"]
        /\ UNCHANGED <<allocation, positions>>
        /\ UNCHANGED stopVars
        /\ UNCHANGED sessionVars
        /\ UNCHANGED restVars

\* update_positions(positions_data)
UpdatePositions ==
    \E positions_data \in PositionsData :
        /\ positions' = UpdatedPositions(positions_data, total_portfolio_value)
        /\ last_call' = [NoCall EXCEPT !.op = "update_positions"]
        /\ UNCHANGED <<allocation, total_portfolio_value>>
        /\ UNCHANGED stopVars
        /\ UNCHANGED sessionVars
        /\ UNCHANGED restVars

\* can_trade_asset_class(asset_class, trade_value)
CanTradeAssetClass ==
    \E asset_class \in AssetClass, trade_value \in TradeValues :
        LET r == can_trade_asset_class(allocation, positions, total_portfolio_value,
                                       asset_class, trade_value)
        IN /\ last_call' = [NoCall EXCEPT !.op = "can_trade_asset_class",
                                          !.asset_class = asset_class,
                                          !.arg = trade_value,
                                          !.ok = r.ok,
                                          !.reason = r.reason]
           /\ UNCHANGED <<allocation, positions, total_portfolio_value>>
           /\ UNCHANGED stopVars
           /\ UNCHANGED sessionVars
           /\ UNCHANGED restVars

\* get_available_buying_power(asset_class)
GetAvailableBuyingPower ==
    \E asset_class \in AssetClass :
        /\ last_call' = [NoCall EXCEPT !.op = "get_available_buying_power",
                                       !.asset_class = asset_class,
                                       !.amount = get_available_buying_power(
                                            allocation, positions,
                                            total_portfolio_value, asset_class)]
        /\ UNCHANGED <<allocation, positions, total_portfolio_value>>
        /\ UNCHANGED stopVars
        /\ UNCHANGED sessionVars
        /\ UNCHANGED restVars

\* get_recommended_trade_size(symbol, asset_class, current_price)
GetRecommendedTradeSize ==
    \E asset_class \in AssetClass, current_price \in TradePrices :
        /\ last_call' = [NoCall EXCEPT !.op = "get_recommended_trade_size",
                                       !.asset_class = asset_class,
                                       !.arg = current_price,
                                       !.shares = get_recommended_trade_size(
                                            allocation, positions,
                                            total_portfolio_value,
                                            asset_class, current_price)]
        /\ UNCHANGED <<allocation, positions, total_portfolio_value>>
        /\ UNCHANGED stopVars
        /\ UNCHANGED sessionVars
        /\ UNCHANGED restVars

NextLedger ==
    \/ NewPortfolioManager
    \/ UpdatePortfolioValue
    \/ UpdatePositions
    \/ CanTradeAssetClass
    \/ GetAvailableBuyingPower
    \/ GetRecommendedTradeSize

SpecLedger == Init /\ [][NextLedger]_vars

(***************************************************************************)
(* Operations of the sessions                                              *)
(***************************************************************************)
\* signal_handler of the scheduler service: SIGINT or SIGTERM
ShutdownSignal ==
    /\ ~shutdown_flag
    /\ shutdown_flag' = TRUE
    /\ UNCHANGED <<session_pc, results, trading_session, outbox, placed, cycle,
                   legacy_connected,
                       legacy_trading_session>>
    /\ UNCHANGED stopVars
    /\ UNCHANGED ledgerVars
    /\ UNCHANGED restVars

\* TradingScheduler._run_session up to the first workflow of run_bot_robust:
\* it returns at once when the shutdown flag is set (and when the market is
\* closed, which changes nothing)
StartSession ==
    \E session_type \in SessionTypes :
        /\ session_pc = "idle"
        /\ cycle.orchestrator \in {"none", "run_bot_robust"}
        /\ ~shutdown_flag
        /\ session_pc' = "equity"
        /\ results' = <<>>
        /\ trading_session' = [trading_session EXCEPT !.session_type = session_type]
        /\ outbox' = <<>>
        /\ placed' = <<>>
        /\ cycle' = NewCycle("run_bot_robust", trading_session,
                              [trading_session EXCEPT !.session_type = session_type])
        /\ UNCHANGED <<shutdown_flag, legacy_connected,
                       legacy_trading_session>>
        /\ UNCHANGED stopVars
        /\ UNCHANGED ledgerVars
        /\ UNCHANGED restVars

\* what a workflow that has returned (or hangs) leaves behind; shutdown: the
\* shutdown flag was already set when the workflow started
WorkflowDone(workflow, next_pc, outcome, sent) ==
    /\ session_pc' = IF outcome.blocked THEN "blocked" ELSE next_pc
    /\ results' = IF outcome.blocked THEN results
                  ELSE results @@ (workflow :>
                          [success |-> outcome.success,
                           trades_executed |-> outcome.trades_executed,
                           shutdown |-> shutdown_flag])
    /\ placed' = placed \o outcome.placed
    /\ outbox' = outbox \o AlertMessages(outcome.alerts, sent)
    /\ trading_session' = RecordTrades(trading_session, outcome.alerts, 1)

\* results['equity'] = run_equity_trading()
RunEquityTrading ==
    \E top_stocks_ok \in BOOLEAN, advanced \in BOOLEAN, sent \in BOOLEAN,
       signals \in [Range(EquityOrder) -> Signals] :
        LET outcome == run_equity_trading(top_stocks_ok, signals, advanced, broker)
        IN /\ session_pc = "equity"
           /\ WorkflowDone("equity", "bonds", outcome, sent)
           /\ cycle' = IF EquitySignalsGenerated(top_stocks_ok)
                        THEN EquityCycle(cycle, signals, broker)
                        ELSE cycle
           /\ UNCHANGED <<shutdown_flag, legacy_connected,
                       legacy_trading_session>>
           /\ UNCHANGED stopVars
           /\ UNCHANGED ledgerVars
           /\ UNCHANGED restVars

\* results['bonds'] = run_bond_trading()
RunBondTrading ==
    \E signals_ok \in BOOLEAN, sent \in BOOLEAN,
       signals \in [Range(BondOrder) -> Signals] :
        /\ session_pc = "bonds"
        /\ WorkflowDone("bonds", "crypto", run_bond_trading(signals_ok, signals), sent)
        /\ UNCHANGED <<shutdown_flag, cycle, legacy_connected,
                       legacy_trading_session>>
        /\ UNCHANGED stopVars
        /\ UNCHANGED ledgerVars
        /\ UNCHANGED restVars

\* results['crypto'] = run_crypto_trading()
RunCryptoTrading ==
    \E sent \in BOOLEAN, signals \in [Range(CryptoOrder) -> Signals] :
        /\ session_pc = "crypto"
        /\ WorkflowDone("crypto", "summary", run_crypto_trading(signals), sent)
        /\ UNCHANGED <<shutdown_flag, cycle, legacy_connected,
                       legacy_trading_session>>
        /\ UNCHANGED stopVars
        /\ UNCHANGED ledgerVars
        /\ UNCHANGED restVars

\* the end of run_bot_robust: portfolio status, session end, then
\* send_trading_summary_robust() once
Summarize ==
    \E sent \in BOOLEAN :
        /\ session_pc = "summary"
        /\ session_pc' = "idle"
        /\ outbox' = Append(outbox, SummaryMessage(trading_session, sent))
        /\ UNCHANGED <<shutdown_flag, results, trading_session, placed, cycle,
                       legacy_connected,
                       legacy_trading_session>>
        /\ UNCHANGED stopVars
        /\ UNCHANGED ledgerVars
        /\ UNCHANGED restVars

\* what a run of the legacy bot leaves behind.  Every execute_trade refreshes
\* the ledger of the legacy module from the account before reading it (see
\* execute_trade above), so the ledger it leaves is not kept.  Every alert
\* adds its trade to the session record of the legacy module.
LegacyDone(traded, equity_signals, sent) ==
    /\ cycle' = EquityCycle(NewCycle("run_bot", legacy_trading_session,
                                      legacy_trading_session),
                             equity_signals, broker)
    /\ legacy_trading_session' = RecordTrades(legacy_trading_session, traded.alerts, 1)
    /\ placed' = traded.placed
    /\ outbox' = AlertMessages(traded.alerts, sent)
    /\ results' = <<>>
    /\ UNCHANGED <<shutdown_flag, session_pc, trading_session>>
    /\ UNCHANGED stopVars
    /\ UNCHANGED ledgerVars
    /\ UNCHANGED restVars

\* run_bot() of the legacy bot, as its main program runs it once at start-up,
\* while the client is connected; it disconnects from the broker when it ends
RunBot ==
    \E after_3pm \in BOOLEAN, sent \in BOOLEAN,
       funds \in AvailableFundsValues, status \in OrderStatuses,
       SHARES_PER_TRADE \in SharesPerTradeValues,
       equity_signals \in [Range(EquityOrder) -> Signals],
       bond_signals \in [Range(BondOrder) -> Signals],
       crypto_signals \in [Range(CryptoOrder) -> Signals] :
        /\ cycle.orchestrator = "none"
        /\ legacy_connected
        /\ legacy_connected' = FALSE
        /\ LegacyDone(run_bot(legacy_connected, equity_signals, bond_signals,
                              crypto_signals, allocation, broker, funds, status,
                              after_3pm, SHARES_PER_TRADE),
                      equity_signals, sent)

\* run_morning_session / run_afternoon_session of the legacy bot on a weekday,
\* run by the schedule loop that follows the start-up run: reset_trading_session,
\* run_bot, send_trading_summary.  The client is disconnected by then: it
\* reports no position to the stop-loss check and, whatever the signals are,
\* every execute_trade returns None.
RunLegacySession ==
    \E session_type \in SessionTypes, sent \in BOOLEAN,
       equity_signals \in [Range(EquityOrder) -> Signals] :
        /\ cycle.orchestrator = "run_bot"
        /\ ~legacy_connected
        /\ cycle' = [NewCycle("run_bot", legacy_trading_session,
                               reset_trading_session(legacy_trading_session,
                                                     session_type))
                        EXCEPT !.buy_signals = {s \in Range(EquityOrder) :
                                                   equity_signals[s] = 1}]
        /\ legacy_trading_session' =
               reset_trading_session(legacy_trading_session, session_type)
        /\ placed' = <<>>
        /\ outbox' = <<SummaryMessage(reset_trading_session(legacy_trading_session,
                                                           session_type), sent)>>
        /\ results' = <<>>
        /\ UNCHANGED <<shutdown_flag, session_pc, trading_session,
                       legacy_connected>>
        /\ UNCHANGED stopVars
        /\ UNCHANGED ledgerVars
        /\ UNCHANGED restVars

NextSession ==
    \/ BrokerUpdate
    \/ ConnectionChange
    \/ ShutdownSignal
    \/ StartSession
    \/ RunEquityTrading
    \/ RunBondTrading
    \/ RunCryptoTrading
    \/ Summarize
    \/ RunBot
    \/ RunLegacySession

SpecSession == Init /\ [][NextSession]_vars

(***************************************************************************)
(* Operations of the retry decorator                                       *)
(***************************************************************************)
\* time.time() moves on
TimePasses ==
    /\ wall_time < MaxClock
    /\ wall_time' = wall_time + 1
    /\ UNCHANGED <<circuit_breakers, last_wrap>>
    /\ UNCHANGED retryFrame

\* what a call of the wrapper leaves behind
Wrapped(func_key, outcomes, end, orders_per_invocation) ==
    /\ circuit_breakers' = (func_key :> end.breaker) @@ circuit_breakers
    /\ last_wrap' = [func |-> func_key,
                     before |-> BreakerOf(circuit_breakers, func_key),
                     at |-> wall_time,
                     invocations |-> end.invocations,
                     result |-> end.result,
                     exception |-> end.exception,
                     outcomes |-> outcomes,
                     orders |-> end.invocations * orders_per_invocation]
    /\ UNCHANGED wall_time
    /\ UNCHANGED retryFrame

\* a call of get_top_stocks_cached through its retry_api_call wrapper
CallGetTopStocksCached ==
    \E outcomes \in [Attempts -> Outcomes] :
        Wrapped("get_top_stocks_cached", outcomes,
                wrapper_loop(BreakerOf(circuit_breakers, "get_top_stocks_cached"),
                             outcomes, 0, wall_time),
                0)

\* a call of execute_trade_robust through its retry_ibkr_call wrapper, the
\* broker session being up
CallExecuteTradeRobust ==
    \E symbol \in SymbolSet, action \in {"BUY", "SELL"} :
        /\ ensure_ibkr_connection_robust /= Blocked
        /\ Wrapped("execute_trade_robust",
                   [k \in Attempts |-> trade_outcome(execute_trade_robust(
                       [symbol |-> symbol, action |-> action, stop_loss |-> FALSE]))],
                   wrapper_loop(BreakerOf(circuit_breakers, "execute_trade_robust"),
                       [k \in Attempts |-> trade_outcome(execute_trade_robust(
                           [symbol |-> symbol, action |-> action, stop_loss |-> FALSE]))],
                       0, wall_time),
                   Len(execute_trade_robust(
                       [symbol |-> symbol, action |-> action, stop_loss |-> FALSE]).order))

NextRetry ==
    \/ TimePasses
    \/ ConnectionChange
    \/ CallGetTopStocksCached
    \/ CallExecuteTradeRobust

SpecRetry == Init /\ [][NextRetry]_vars

(***************************************************************************)
(* Operations on the shared broker session                                 *)
(***************************************************************************)
\* thread t moves to pc, the lock becoming lock
ConnStep(t, pc, lock) ==
    /\ conn_pc' = [conn_pc EXCEPT ![t] = pc]
    /\ ib_lock' = lock

\* thread t returns ret from its outermost call, the lock becoming lock
ConnReturn(t, ret, lock) ==
    /\ ConnStep(t, "idle", lock)
    /\ conn_ret' = [conn_ret EXCEPT ![t] = ret]
    /\ conn_outer' = [conn_outer EXCEPT ![t] = "none"]

\* t calls ensure_ibkr_connection() and reaches "with ib_lock:"
CallEnsure(t) ==
    /\ conn_pc[t] = "idle"
    /\ ConnStep(t, "ensure_lock", ib_lock)
    /\ conn_outer' = [conn_outer EXCEPT ![t] = "ensure_ibkr_connection"]
    /\ conn_ret' = [conn_ret EXCEPT ![t] = None]
    /\ UNCHANGED connFrame
    /\ UNCHANGED connected

\* t calls initialize_ibkr() directly (start-up of the scheduler or of main)
CallInitialize(t) ==
    /\ conn_pc[t] = "idle"
    /\ ConnStep(t, "init_config", ib_lock)
    /\ conn_outer' = [conn_outer EXCEPT ![t] = "initialize_ibkr"]
    /\ conn_ret' = [conn_ret EXCEPT ![t] = None]
    /\ UNCHANGED connFrame
    /\ UNCHANGED connected

\* ensure_ibkr_connection: ib_lock.acquire() returns once the lock is free
EnsureAcquire(t) ==
    /\ conn_pc[t] = "ensure_lock"
    /\ ib_lock = Free
    /\ ConnStep(t, "ensure_check", t)
    /\ UNCHANGED <<conn_outer, conn_ret>>
    /\ UNCHANGED connFrame
    /\ UNCHANGED connected

\* ensure_ibkr_connection under the lock: True when connected, otherwise the
\* call of initialize_ibkr() with the lock still held
EnsureCheck(t) ==
    /\ conn_pc[t] = "ensure_check"
    /\ IF connected
       THEN ConnReturn(t, "True", Free)
       ELSE /\ ConnStep(t, "init_config", ib_lock)
            /\ UNCHANGED <<conn_outer, conn_ret>>
    /\ UNCHANGED connFrame
    /\ UNCHANGED connected

\* initialize_ibkr: get_broker_config("IBKR"); without a configuration it
\* returns False (and the "with" of a calling ensure_ibkr_connection releases)
InitConfig(t) ==
    /\ conn_pc[t] = "init_config"
    /\ \E found \in BOOLEAN :
           IF found
           THEN /\ ConnStep(t, "init_lock", ib_lock)
                /\ UNCHANGED <<conn_outer, conn_ret>>
           ELSE ConnReturn(t, "False", IF ib_lock = t THEN Free ELSE ib_lock)
    /\ UNCHANGED connFrame
    /\ UNCHANGED connected

\* initialize_ibkr: ib_lock.acquire() returns once the lock is free
InitAcquire(t) ==
    /\ conn_pc[t] = "init_lock"
    /\ ib_lock = Free
    /\ ConnStep(t, "init_body", t)
    /\ UNCHANGED <<conn_outer, conn_ret>>
    /\ UNCHANGED connFrame
    /\ UNCHANGED connected

\* initialize_ibkr under the lock: True when connected, otherwise IB().connect,
\* which connects or does not (an exception is caught and gives False)
InitBody(t) ==
    /\ conn_pc[t] = "init_body"
    /\ IF connected
       THEN /\ ConnReturn(t, "True", Free)
            /\ UNCHANGED connected
       ELSE \E ok \in BOOLEAN :
                /\ connected' = ok
                /\ ConnReturn(t, IF ok THEN "True" ELSE "False", Free)
    /\ UNCHANGED connFrame

NextConn ==
    \/ ConnectionChange
    \/ \E t \in Threads : CallEnsure(t)
    \/ \E t \in Threads : CallInitialize(t)
    \/ \E t \in Threads : EnsureAcquire(t)
    \/ \E t \in Threads : EnsureCheck(t)
    \/ \E t \in Threads : InitConfig(t)
    \/ \E t \in Threads : InitAcquire(t)
    \/ \E t \in Threads : InitBody(t)

SpecConn == Init /\ [][NextConn]_vars

(***************************************************************************)
(* Operations of the data cache                                            *)
(***************************************************************************)
CacheTimePasses ==
    /\ cache_time < MaxCacheTime
    /\ cache_time' = cache_time + 1
    /\ UNCHANGED <<cache, cache_ret>>
    /\ UNCHANGED cacheFrame

\* a call of the provider: the cache it leaves and what the caller saw
CacheCall(c, op, symbol, period, value) ==
    /\ cache' = c
    /\ cache_ret' = [op |-> op, symbol |-> symbol, period |-> period, value |-> value]
    /\ UNCHANGED cache_time
    /\ UNCHANGED cacheFrame

CacheYfinanceData ==
    \E data \in CachedData, symbol \in SymbolSet, period \in Periods :
        /\ Cardinality(DOMAIN cache \cup {YfinanceKey(symbol, period)}) <= MaxEntries
        /\ CacheCall(cache_set(cache, "yfinance", YfinanceKey(symbol, period), data,
                               cache_ttl, cache_time),
                     "cache_yfinance_data", symbol, period, None)

CacheAlphaVantageData ==
    \E data \in CachedData, symbol \in SymbolSet :
        /\ Cardinality(DOMAIN cache \cup {AlphaVantageKey(symbol, "GLOBAL_QUOTE")}) <= MaxEntries
        /\ CacheCall(cache_set(cache, "alpha_vantage", AlphaVantageKey(symbol, "GLOBAL_QUOTE"),
                               data, cache_ttl, cache_time),
                     "cache_alpha_vantage_data", symbol, "", None)

GetYfinanceData ==
    \E symbol \in SymbolSet, period \in Periods :
        CacheCall(cache_get(cache, YfinanceKey(symbol, period), cache_time),
                  "get_yfinance_data", symbol, period,
                  cache_get_value(cache, YfinanceKey(symbol, period), cache_time))

GetAlphaVantageData ==
    \E symbol \in SymbolSet :
        CacheCall(cache_get(cache, AlphaVantageKey(symbol, "GLOBAL_QUOTE"), cache_time),
                  "get_alpha_vantage_data", symbol, "",
                  cache_get_value(cache, AlphaVantageKey(symbol, "GLOBAL_QUOTE"), cache_time))

InvalidateSymbolData ==
    \E symbol \in SymbolSet :
        CacheCall(invalidate_symbol_data(cache, symbol),
                  "invalidate_symbol_data", symbol, "", None)

NextCache ==
    \/ CacheTimePasses
    \/ CacheYfinanceData
    \/ CacheAlphaVantageData
    \/ GetYfinanceData
    \/ GetAlphaVantageData
    \/ InvalidateSymbolData

SpecCache == Init /\ [][NextCache]_vars

(***************************************************************************)
(* Operations of the scheduler service                                     *)
(***************************************************************************)
\* the main loop sleeps with no job due: the local clock moves on, and the
\* jobs of a new day are pending again
SchedTick ==
    /\ ~shutdown_flag
    /\ DueJobs(sched_now, sched_done) = {}
    /\ IF sched_now.minute + SchedStep >= MinutesPerDay
       THEN /\ sched_now' = [weekday |-> (sched_now.weekday + 1) % 7,
                             minute |-> (sched_now.minute + SchedStep) % MinutesPerDay]
            /\ sched_done' = {}
       ELSE /\ sched_now' = [sched_now EXCEPT !.minute = @ + SchedStep]
            /\ UNCHANGED sched_done
    /\ UNCHANGED sched_last
    /\ UNCHANGED schedFrame
    /\ UNCHANGED shutdown_flag

\* schedule.run_pending() runs a job that is due: run_morning_session or
\* run_afternoon_session, that is _run_session(session_type)
RunSession(session_type) ==
    \E bot_raises \in BOOLEAN :
        /\ session_type \in DueJobs(sched_now, sched_done)
        /\ sched_done' = sched_done \cup {session_type}
        /\ sched_last' = [session_type |-> session_type,
                          outcome |-> run_session(shutdown_flag, sched_now, bot_raises),
                          weekday |-> sched_now.weekday,
                          minute |-> sched_now.minute]
        /\ UNCHANGED sched_now
        /\ UNCHANGED schedFrame
        /\ UNCHANGED shutdown_flag

NextSchedule ==
    \/ SchedTick
    \/ ShutdownSignal
    \/ \E session_type \in SessionTypes : RunSession(session_type)

SpecSchedule == Init /\ [][NextSchedule]_vars

(***************************************************************************)
(* Properties of the stop-loss engine                                      *)
(***************************************************************************)
Tracked(s) == s \in DOMAIN position_trackers

\* s is a tracked long position that has been held for min_hold_time
Eligible(s) ==
    /\ Tracked(s)
    /\ broker[s].position > 0
    /\ HoldTimeMinutes(position_trackers[s], now) >= min_hold_time

\* s is tracked and has been held for less than min_hold_time
BelowMinHoldNow(s) ==
    HoldTimeMinutes(position_trackers[s], now) < min_hold_time

\* the current price of s is strictly below its effective stop
Crossed(s) ==
    broker[s].price * 100
        < get_effective_stop(position_trackers[s], trailing_percent, atr_multiplier)

\* s is in the list the last call returned
Reported(s) == \E i \in 1..Len(last_run.triggered) : last_run.triggered[i].symbol = s

\* the SELL orders the last call placed for s
OrdersFor(s) == {i \in 1..Len(last_run.orders) : last_run.orders[i].symbol = s}

\* C1: when check_stop_loss_positions returns, with stop-loss enabled and the
\* broker connected, every tracked long position held for at least min_hold_time
\* is in the returned list if and only if its price is strictly below its
\* effective stop.
C1_ReportedIffCrossed ==
    (last_run.op = "check" /\ enabled /\ connected) =>
        \A s \in SymbolSet : Eligible(s) => (Reported(s) <=> Crossed(s))

\* C2: when process_stop_losses returns, every tracked position past its minimum
\* hold time whose price is below its effective stop has exactly one market SELL
\* for the full quantity held, and the returned count is the number of sells
\* the broker accepted (Filled or Submitted).
C2_CrossedStopIsSold ==
    (last_run.op = "process" /\ enabled /\ connected) =>
        /\ \A s \in SymbolSet : (Eligible(s) /\ Crossed(s)) =>
               /\ Cardinality(OrdersFor(s)) = 1
               /\ \A i \in OrdersFor(s) :
                      /\ last_run.orders[i].action = "SELL"
                      /\ last_run.orders[i].orderType = "MKT"
                      /\ last_run.orders[i].totalQuantity = broker[s].position
        /\ last_run.executed =
               Cardinality({i \in 1..Len(last_run.orders) :
                               SellAccepted(last_run.orders[i].status)})

\* C3: across every step a tracker that stays in place never lowers its
\* high_price, and the high_price of every tracker is at least its entry_price.
C3_HighWaterMark ==
    /\ [](\A s \in DOMAIN position_trackers :
             position_trackers[s].high_price >= position_trackers[s].entry_price)
    /\ [][\A s \in DOMAIN position_trackers \cap DOMAIN position_trackers' :
             position_trackers'[s].high_price >= position_trackers[s].high_price]_vars

\* a cycle has just observed a price below the high-water mark of a tracker
\* that had risen above its entry price
C3_Witness ==
    /\ last_run.op = "update"
    /\ \E s \in DOMAIN position_trackers :
          /\ broker[s].position > 0
          /\ position_trackers[s].high_price > position_trackers[s].entry_price
          /\ broker[s].price < position_trackers[s].high_price
          /\ position_trackers[s].last_check = now
          /\ position_trackers[s].entry_time < now

\* C4: a tracked position held for less than min_hold_time is skipped by the scan
\* before any stop is evaluated: it is not reported as triggered and no order is
\* placed for it, whatever its price.
C4_MinHoldGate ==
    (last_run.op \in {"check", "process"}) =>
        \A s \in DOMAIN position_trackers :
            BelowMinHoldNow(s) =>
                /\ ~Reported(s)
                /\ OrdersFor(s) = {}
                /\ s \notin last_run.evaluated

\* process_stop_losses has just run over a position that is below its effective
\* stop but not yet held for min_hold_time
C4_Witness ==
    /\ last_run.op = "process"
    /\ connected
    /\ \E s \in DOMAIN position_trackers :
          /\ broker[s].position > 0
          /\ BelowMinHoldNow(s)
          /\ position_trackers[s].entry_time < now
          /\ Crossed(s)

\* C5: for every tracker and every (trailing_percent, atr_multiplier) the
\* effective stop is the larger of high_price * (1 - trailing_percent/100) and
\* entry_price - atr_multiplier * atr_value.
C5_EffectiveStopIsMax ==
    \A s \in DOMAIN position_trackers, tp \in TrailingPercents, am \in AtrMultipliers :
        LET tracker == position_trackers[s]
            trailing_stop == tracker.high_price * (100 - tp)
            atr_stop == (tracker.entry_price - am * tracker.atr_value) * 100
            effective_stop == get_effective_stop(tracker, tp, am)
        IN /\ effective_stop >= trailing_stop
           /\ effective_stop >= atr_stop
           /\ effective_stop \in {trailing_stop, atr_stop}

\* a tracker for which the trailing stop binds under one setting and the ATR
\* stop under another
C5_Witness ==
    \E s \in DOMAIN position_trackers :
        LET tracker == position_trackers[s] IN
        /\ tracker.atr_value > 0
        /\ \E tp \in TrailingPercents, am \in AtrMultipliers :
              get_trailing_stop(tracker, tp) > get_atr_stop(tracker, am)
        /\ \E tp \in TrailingPercents, am \in AtrMultipliers :
              get_atr_stop(tracker, am) > get_trailing_stop(tracker, tp)

(***************************************************************************)
(* Properties of the allocation ledger and the trade sizer                 *)
(***************************************************************************)
\* C6: get_recommended_trade_size returns n with 0 <= n <= 10, and when n > 0
\* the trade value n * price is at most 50% of total_portfolio_value.
C6_TradeSizerBounds ==
    (last_call.op = "get_recommended_trade_size") =>
        /\ last_call.shares \in 0..10
        /\ last_call.shares > 0 =>
              2 * last_call.shares * last_call.arg <= total_portfolio_value

\* the sizer has just recommended the largest trade, ten shares
C6_Witness ==
    /\ last_call.op = "get_recommended_trade_size"
    /\ last_call.shares = 10
    /\ total_portfolio_value > 0

\* the largest number of whole shares, capped at 10 and at least 1, that the
\* per-trade cap capN/capD buys at the given price
SharesWithinCap(capN, capD, price) ==
    LET Fits(k) == k * price * capD <= capN
    IN IF Fits(10) THEN 10
       ELSE IF ~Fits(1) THEN 1
       ELSE CHOOSE k \in 1..9 : Fits(k) /\ ~Fits(k + 1)

\* the sizing policy: nothing without buying power; else a cap of 20% of the
\* portfolio below $100 and of 10% of the available buying power otherwise;
\* nothing if the trade is worth more than half of the portfolio
ReferenceTradeSize(asset_class, price) ==
    LET available == get_available_buying_power(allocation, positions,
                                                total_portfolio_value, asset_class)
        shares == IF total_portfolio_value < 100
                  THEN SharesWithinCap(20 * total_portfolio_value, 100, price)
                  ELSE SharesWithinCap(10 * available[1], 100 * available[2], price)
    IN IF available[1] <= 0 THEN 0
       ELSE IF 2 * shares * price > total_portfolio_value THEN 0
       ELSE shares

\* C7: get_recommended_trade_size returns what the sizing policy prescribes.
C7_TradeSizerPolicy ==
    (last_call.op = "get_recommended_trade_size") =>
        last_call.shares = ReferenceTradeSize(last_call.asset_class, last_call.arg)

\* a micro account ($80) asked about a $20 share: the cap of $16 buys no share
\* and the floor of one share applies
C7_Witness ==
    /\ last_call.op = "get_recommended_trade_size"
    /\ total_portfolio_value = 80
    /\ last_call.arg = 20
    /\ last_call.shares = 1

\* (c * V + trade_value) / V > t + 0.05, in whole numbers
ProjectedAboveBand(asset_class, trade_value) ==
    LET c == get_current_allocation(positions, asset_class)
        V == total_portfolio_value
    IN (c[1] * V + trade_value * c[2]) * 1000
          > (allocation[asset_class] + 50) * c[2] * V

\* C8: with V > 0, can_trade_asset_class returns False exactly when the projected
\* fraction (c*V + trade_value)/V exceeds target + 0.05; with V <= 0 it returns
\* False with a reason.
C8_AllocationGate ==
    (last_call.op = "can_trade_asset_class") =>
        IF total_portfolio_value > 0
        THEN ~last_call.ok <=> ProjectedAboveBand(last_call.asset_class, last_call.arg)
        ELSE ~last_call.ok /\ last_call.reason /= ""

\* a trade has just been refused for a class that holds something and would
\* end above the band
C8_Witness ==
    /\ last_call.op = "can_trade_asset_class"
    /\ total_portfolio_value > 0
    /\ ~last_call.ok
    /\ get_current_allocation(positions, last_call.asset_class)[1] > 0
    /\ RLe(get_current_allocation(positions, last_call.asset_class),
           max_allowed(allocation, last_call.asset_class))

\* target_fraction * total_portfolio_value * 1.05 - current value of the class,
\* the current value being current allocation * total_portfolio_value
Headroom(asset_class) ==
    RSub(RMul(Frac(allocation[asset_class] * 21, 20000), Whole(total_portfolio_value)),
         RMul(get_current_allocation(positions, asset_class),
              Whole(total_portfolio_value)))

\* the class holds more than its target fraction
OverAllocated(asset_class) ==
    RGt(get_current_allocation(positions, asset_class),
        Frac(allocation[asset_class], 1000))

\* the result is max(0, headroom), never negative, and 0 without portfolio value
BuyingPowerFormula ==
    /\ last_call.amount[1] >= 0
    /\ total_portfolio_value <= 0 => last_call.amount[1] = 0
    /\ total_portfolio_value > 0 =>
          /\ RLe(Headroom(last_call.asset_class), last_call.amount)
          /\ last_call.amount \in {Whole(0), Headroom(last_call.asset_class)}

\* C9 as stated: get_available_buying_power is max(0, target*V*1.05 - current),
\* never negative, 0 without portfolio value, and 0 whenever the class is
\* over-allocated (holds more than its target).
C9_ZeroWhenOverAllocated ==
    (last_call.op = "get_available_buying_power") =>
        /\ BuyingPowerFormula
        /\ (total_portfolio_value > 0 /\ OverAllocated(last_call.asset_class)) =>
              last_call.amount[1] = 0

\* C9 (amended): get_available_buying_power is max(0, target*V*1.05 - current),
\* never negative, 0 without portfolio value, and 0 whenever the class holds at
\* least 1.05 times its target value.
C9_AvailableBuyingPower ==
    (last_call.op = "get_available_buying_power") =>
        /\ BuyingPowerFormula
        /\ (total_portfolio_value > 0
              /\ RLe(Headroom(last_call.asset_class), Whole(0))) =>
              last_call.amount[1] = 0

\* the buying power of a class held beyond 1.05 times its target has just been
\* asked for
C9_Witness ==
    /\ last_call.op = "get_available_buying_power"
    /\ total_portfolio_value > 0
    /\ RGt(Whole(0), Headroom(last_call.asset_class))
    /\ last_call.amount = Whole(0)

\* C10: the allocation of the ledger always sums to 1.0 within 0.01; an
\* AssetAllocation outside that band raises, and the failed construction leaves
\* the ledger as it was.
C10_AllocationSum ==
    /\ [](/\ Abs(AllocationTotal(allocation) - 1000) <= 10
          /\ (last_call.op = "AssetAllocation" /\ Abs(last_call.arg - 1000) > 10) =>
                last_call.raised)
    /\ [][(last_call'.op = "AssetAllocation" /\ last_call'.raised) =>
             UNCHANGED <<allocation, positions, total_portfolio_value>>]_vars

\* an out-of-band allocation has just been refused while the ledger holds an
\* allocation other than the default
C10_Witness ==
    /\ last_call.op = "AssetAllocation"
    /\ last_call.raised
    /\ Abs(last_call.arg - 1000) > 10
    /\ allocation /= DefaultAllocation

(***************************************************************************)
(* Properties of the tracker life cycle                                    *)
(***************************************************************************)
\* the call that has just returned ran an update_position_trackers cycle
CycleRan ==
    \/ last_run.op = "update" /\ connected
    \/ last_run.op \in {"check", "process"} /\ enabled /\ connected

\* the broker refused the SELL that the last call placed for s
SellRefused(s) ==
    \E i \in OrdersFor(s) : ~SellAccepted(last_run.orders[i].status)

\* C15: a triggered tracker is terminal: when process_stop_losses returns, no
\* tracker is left for a position it found past the hold gate and below its
\* effective stop, unless the broker refused the sell; the tracker of a closed
\* holding is removed and is not carried over to a later holding of the symbol.
C15_TriggeredTrackerRemoved ==
    (last_run.op = "process" /\ enabled /\ connected) =>
        \A s \in SymbolSet :
            (broker[s].position > 0 /\ Tracked(s)
               /\ HoldTimeMinutes(position_trackers[s], now) >= min_hold_time
               /\ Crossed(s))
            => SellRefused(s)

\* C16: when an update_position_trackers cycle has completed, the tracked
\* symbols are exactly the symbols held with quantity > 0 in the broker's
\* snapshot: no tracker for a flat or short position, one for every long one.
C16_TrackedIsHeldLong ==
    CycleRan => DOMAIN position_trackers = LongSymbols(broker)

\* a cycle has just tracked a new long position while a position that is flat
\* or short is left without tracker
C16_Witness ==
    /\ last_run.op = "update"
    /\ connected
    /\ \E s \in SymbolSet :
          /\ broker[s].position > 0
          /\ Tracked(s)
          /\ position_trackers[s].entry_time = now
    /\ \E s \in SymbolSet : broker[s].position < 0 /\ ~Tracked(s)
    /\ now > 0

\* 3600 seconds, in minutes
AtrRefreshMinutes == 60

\* C17: when a monitoring cycle has completed, no tracker has an atr_value
\* computed more than one hour ago (a cycle that finds it older recomputes it),
\* and no step recomputes the atr_value of a tracker whose atr_value is one hour
\* old or less.
C17_AtrRefreshCadence ==
    /\ [](CycleRan =>
            \A s \in DOMAIN position_trackers :
                now - position_trackers[s].atr_time <= AtrRefreshMinutes)
    /\ [][\A s \in DOMAIN position_trackers \cap DOMAIN position_trackers' :
             position_trackers'[s].atr_time /= position_trackers[s].atr_time
                => now - position_trackers[s].atr_time > AtrRefreshMinutes]_vars

\* the high-volatility probability of the symbol is above high_vol_threshold
HighVolRegime(s) ==
    /\ get_hmm_regime_probability(s) /= None
    /\ get_hmm_regime_probability(s) > high_vol_threshold

\* TradingConfig.stop_loss_threshold (-5.0) and its tightened value, in tenths
\* of a percent
BaseThreshold == -50
TightenedThreshold == (BaseThreshold * high_vol_tightening) \div 100

\* C18: with regime-aware mode on, every position the scan takes past the hold
\* gate is compared using a threshold that is the tightened one (base times
\* high_vol_tightening) when the high-volatility probability is above
\* high_vol_threshold, and that is never more permissive than the base one.
C18_RegimeTightens ==
    (last_run.op \in {"check", "process"} /\ regime_aware) =>
        \A s \in last_run.evaluated :
            /\ effective_threshold(s) /= AttributeError
            /\ effective_threshold(s) >= BaseThreshold
            /\ HighVolRegime(s) => effective_threshold(s) = TightenedThreshold

(***************************************************************************)
(* Properties of the trading sessions                                      *)
(***************************************************************************)
\* a session of either bot has run to its end
SessionOver == session_pc = "idle" /\ cycle.orchestrator /= "none"

\* a session of the robust bot has run to its end
RobustSessionOver == session_pc = "idle" /\ cycle.orchestrator = "run_bot_robust"

\* the summaries among the messages of the session
Summaries == SelectSeq(outbox, LAMBDA m : m.kind = "summary")

\* C11: stop-loss executions are silent: no e-mail alert is handed to the
\* notifier for a sell that originates from a stop-loss trigger
C11_StopLossSellsSilent ==
    \A i \in 1..Len(outbox) :
        outbox[i].kind = "alert" => ~outbox[i].stop_loss

\* C12: workflow isolation: whatever workflows fail, a session of run_bot_robust
\* is never stuck inside a workflow, has the result of all three workflows when
\* it reaches the summary step, and has emitted exactly one summary when it is
\* over
C12_WorkflowIsolation ==
    /\ session_pc /= "blocked"
    /\ session_pc = "summary" => DOMAIN results = Workflows
    /\ RobustSessionOver => Len(Summaries) = 1

\* C13: exit before entry: within a session every stop-loss SELL is submitted
\* to the broker before any BUY is
C13_ExitsBeforeEntries ==
    \A i \in 1..Len(placed), j \in 1..Len(placed) :
        (placed[i].action = "BUY" /\ placed[j].action = "SELL" /\ placed[j].stop_loss)
            => j < i

\* C14: the SELL wins: when a session is over, every symbol that had both a BUY
\* signal and a position beyond the stop-loss threshold in its cycle has been
\* sold, and no BUY order was submitted for it
C14_SellWins ==
    SessionOver =>
        \A s \in cycle.buy_signals \cap cycle.losing :
            /\ \E i \in 1..Len(placed) :
                  placed[i].symbol = s /\ placed[i].action = "SELL"
            /\ ~\E i \in 1..Len(placed) :
                  placed[i].symbol = s /\ placed[i].action = "BUY"

\* what a summary says about the workflows: workflow -> "FAILED" or trade count
WorkflowListing(m) == IF "workflows" \in DOMAIN m THEN m.workflows ELSE <<>>

\* C19: when the equity workflow of a session has failed, the summary of that
\* session lists equity as FAILED and every workflow that completed with its
\* trade count
C19_SummaryItemizesWorkflows ==
    (RobustSessionOver /\ ~results["equity"].success) =>
        /\ Len(Summaries) = 1
        /\ DOMAIN WorkflowListing(Summaries[1]) = Workflows
        /\ WorkflowListing(Summaries[1])["equity"] = "FAILED"
        /\ \A w \in Workflows :
              results[w].success =>
                  WorkflowListing(Summaries[1])[w] = results[w].trades_executed

\* the workflows of the session that started with the shutdown flag set
StartedAfterShutdown == {w \in DOMAIN results : results[w].shutdown}

\* C20: graceful shutdown: no session starts once the shutdown flag is set, and
\* a session in flight runs at most the one workflow it was about to run
C20_GracefulShutdown ==
    /\ [](Cardinality(StartedAfterShutdown) <= 1)
    /\ [][shutdown_flag => ~(session_pc = "idle" /\ session_pc' = "equity")]_vars

(***************************************************************************)
(* Properties of the retry decorator and the circuit breaker               *)
(***************************************************************************)
\* the outcomes of the invocations the last call of a wrapper made
Invoked == {last_wrap.outcomes[k] : k \in 1..last_wrap.invocations}

\* the breaker the last call of a wrapper left behind
BreakerAfter == circuit_breakers[last_wrap.func]

\* the last call found the circuit open with its timeout not yet elapsed
FoundOpen ==
    /\ last_wrap.before.state = "open"
    /\ last_wrap.at - last_wrap.before.last_failure_time <= circuit_breaker_timeout

\* the last call was let through as a probe
FoundProbing ==
    \/ last_wrap.before.state = "half_open"
    \/ /\ last_wrap.before.state = "open"
       /\ last_wrap.at - last_wrap.before.last_failure_time > circuit_breaker_timeout

LifeCycle(Failures) ==
    last_wrap.func /= "none" =>
        /\ \A f \in FuncKeys \ DOMAIN circuit_breakers :
               BreakerOf(circuit_breakers, f).state = "closed"
        /\ last_wrap.before.failure_count = 0 => last_wrap.before.state = "closed"
        /\ BreakerAfter.state = "open" => BreakerAfter.failure_count >= circuit_breaker_threshold
        /\ (/\ last_wrap.before.state = "closed"
            /\ Invoked /= {}
            /\ Invoked \subseteq Failures)
           => /\ BreakerAfter.failure_count = last_wrap.before.failure_count + last_wrap.invocations
              /\ BreakerAfter.failure_count >= circuit_breaker_threshold
                     => BreakerAfter.state = "open"
        /\ FoundOpen => /\ last_wrap.invocations = 0
                        /\ last_wrap.result = "circuit_open"
                        /\ BreakerAfter = last_wrap.before
        /\ FoundProbing => last_wrap.invocations >= 1
        /\ last_wrap.result = "returned" => /\ BreakerAfter.failure_count = 0
                                            /\ BreakerAfter.state = "closed"
        /\ (FoundProbing /\ last_wrap.outcomes[1] \in Failures)
           => BreakerAfter.state = "open"

\* C22 (as stated): closed at first, open after circuit_breaker_threshold
\* consecutive failures and rejecting calls without invoking the function, a
\* probe once the timeout has elapsed, a success closes and resets, a failed
\* probe re-opens, a failure being an invocation that raised
C22_Original == LifeCycle({"fail", "other"})

\* C22 (amended): the same life cycle, a failure being an invocation that raised
\* an exception of the kinds the decorator retries on; an invocation raising
\* any other exception leaves the breaker as it found it
C22_CircuitBreakerLifeCycle ==
    /\ LifeCycle({"fail"})
    /\ (last_wrap.func /= "none" /\ last_wrap.invocations = 1
        /\ last_wrap.outcomes[1] = "other")
       => /\ BreakerAfter.failure_count = last_wrap.before.failure_count
          /\ FoundProbing => BreakerAfter.state = "half_open"

\* a probe that failed and re-opened the circuit
C22_Witness ==
    /\ last_wrap.func /= "none"
    /\ last_wrap.before.state = "open"
    /\ FoundProbing
    /\ last_wrap.outcomes[1] = "fail"
    /\ BreakerAfter.state = "open"
    /\ BreakerAfter.last_failure_time = last_wrap.at

C24_EnsureNeverBlocks ==
    \A t \in Threads : ~(conn_pc[t] = "init_lock" /\ ib_lock = t)

(***************************************************************************)
(* Properties of the data cache                                            *)
(***************************************************************************)
\* C25: when invalidate_symbol_data(symbol) has returned, get_yfinance_data of
\* the symbol gives None for every period and get_alpha_vantage_data of the
\* symbol gives None
C25_SymbolDataInvalidated ==
    cache_ret.op = "invalidate_symbol_data" =>
        /\ \A period \in Periods :
               cache_get_value(cache, YfinanceKey(cache_ret.symbol, period), cache_time) = None
        /\ cache_get_value(cache, AlphaVantageKey(cache_ret.symbol, "GLOBAL_QUOTE"),
                           cache_time) = None

(***************************************************************************)
(* Further properties of the allocation ledger                             *)
(***************************************************************************)
\* C26: a recommended trade of n > 0 shares costs no more than the buying power
\* of its asset class: n * current_price <= get_available_buying_power(class)
C26_WithinBuyingPower ==
    (last_call.op = "get_recommended_trade_size" /\ last_call.shares > 0) =>
        RLe(Whole(last_call.shares * last_call.arg),
            get_available_buying_power(allocation, positions, total_portfolio_value,
                                       last_call.asset_class))

\* C27: a position in a symbol of the crypto workflow is counted as crypto by
\* the ledger, and a position in a bond ETF of the bond workflow as fixed income
C27_CountedUnderItsGate ==
    \A s \in DOMAIN positions :
        /\ s \in supported_cryptos => positions[s].asset_class = "crypto"
        /\ s \in bond_etfs => positions[s].asset_class = "fixed_income"

(***************************************************************************)
(* Further properties of the trading sessions                              *)
(***************************************************************************)
\* a session record without a trade
EmptyRecord(session) ==
    /\ session.total_trades = 0
    /\ session.stocks_purchased = <<>>
    /\ session.stocks_sold = <<>>

\* the alerts that precede message i of the outbox
AlertsBefore(i) == {k \in 1..(i - 1) : outbox[k].kind = "alert"}

C29_ScheduledSessionsRun ==
    (sched_last.session_type /= "none" /\ sched_last.outcome /= "shutdown") =>
        sched_last.outcome \in {"completed", "failed"}

(***************************************************************************)
(* Long-only trading                                                       *)
(***************************************************************************)
\* the shares of symbol that the SELL orders of a list ask to sell
RECURSIVE SellQuantity(_, _, _)
SellQuantity(orders, i, symbol) ==
    IF i > Len(orders) THEN 0
    ELSE (IF orders[i].symbol = symbol /\ orders[i].action = "SELL"
          THEN orders[i].totalQuantity ELSE 0)
         + SellQuantity(orders, i + 1, symbol)

\* C30: the SELL orders a session submits for a symbol never ask for more
\* shares than are held of it, so that no holding can be driven below zero
C30_LongOnly ==
    [][placed' /= placed =>
           \A s \in SymbolSet :
               SellQuantity(placed', 1, s) <= Max(broker[s].position, 0)]_vars

====
